---- MODULE Spec2Model ----
(***************************************************************************)
(* Model of the structured-content parser, the content balancer and the    *)
(* template-filling engine of src/code/script_generator.py                 *)
(* (class SlideScriptGenerator).                                           *)
(*                                                                         *)
(* A Python str is a sequence of tokens.  A token is one character that    *)
(* the code looks at (glyphs, blank, colon, digits, newline) or an opaque  *)
(* word that contains none of them.  Keywords searched by the code with    *)
(* `in` / startswith are token sequences, searched as contiguous           *)
(* subsequences.                                                           *)
(***************************************************************************)
EXTENDS Integers, Sequences, FiniteSets, TLC

(***************************************************************************)
(* Bounds of the model.                                                    *)
(***************************************************************************)
\* number of input lines read by the parser in the free-input specification
MaxLines == 5
\* number of lines of a text handed to the balancer in SpecBalance
MaxBalLines == 6
\* largest max_sub_points tried in SpecBalance
MaxSubPoints == 3
\* number of tasks of a scenario text in SpecScenario
MaxTasks == 2
\* number of level-1 lines of a solution of a scenario text
MaxSubs == 4
\* number of tokens of a line classified on its own in SpecLine
MaxLineTokens == 4

(***************************************************************************)
(* Characters.                                                             *)
(***************************************************************************)
\* the level-0 glyph (U+25CF) and the level-1 glyph (U+25CB)
Glyph0 == "*"
Glyph1 == "o"
SP == " "
NL == "\n"

(***************************************************************************)
(* str operations used by the code.                                        *)
(***************************************************************************)
RECURSIVE LStrip(_)
LStrip(s) == IF s # <<>> /\ Head(s) \in {SP, NL} THEN LStrip(Tail(s)) ELSE s

RECURSIVE RStrip(_)
RStrip(s) ==
  IF s # <<>> /\ s[Len(s)] \in {SP, NL} THEN RStrip(SubSeq(s, 1, Len(s) - 1)) ELSE s

\* str.strip()
Strip(s) == RStrip(LStrip(s))

\* sub in s
In(sub, s) == \E k \in 0..(Len(s) - Len(sub)) : SubSeq(s, k + 1, k + Len(sub)) = sub

\* s.startswith(p)
StartsWith(s, p) == Len(s) >= Len(p) /\ SubSeq(s, 1, Len(p)) = p

\* s.find(sub): index (from 0) of the first occurrence, -1 when absent
Find(sub, s) ==
  IF In(sub, s)
  THEN CHOOSE k \in 0..(Len(s) - Len(sub)) :
         /\ SubSeq(s, k + 1, k + Len(sub)) = sub
         /\ \A j \in 0..(k - 1) : SubSeq(s, j + 1, j + Len(sub)) # sub
  ELSE -1

\* sep.join(parts) for the one-token separator sep
\* parts[lo..hi] joined: the first half, the separator, the second half
RECURSIVE JoinRange(_, _, _, _)
JoinRange(sep, parts, lo, hi) ==
  IF lo > hi THEN <<>>
  ELSE IF lo = hi THEN parts[lo]
  ELSE JoinRange(sep, parts, lo, (lo + hi) \div 2) \o <<sep>>
       \o JoinRange(sep, parts, (lo + hi) \div 2 + 1, hi)

Join(sep, parts) == JoinRange(sep, parts, 1, Len(parts))

\* s.split(sep) for the one-token separator sep: "" splits into [""]
RECURSIVE Split(_, _)
Split(sep, s) ==
  LET k == Find(<<sep>>, s)
  IN IF k = -1 THEN <<s>>
     ELSE <<SubSeq(s, 1, k)>> \o Split(sep, SubSeq(s, k + 2, Len(s)))

(***************************************************************************)
(* Keywords of the structured format.                                      *)
(***************************************************************************)
KwReportDate == <<"Report Date", ":">>
KwPurposeOverview == <<"Purpose Overview">>
KwPurposeJp == <<"JpPurpose">>
KwTask == <<"Task">>
KwSubtitle == <<"Subtitle">>
KwContent == <<"-", SP, "Content", ":">>
KwProblem == <<"Problem Description">>
KwSolution == <<"Solution Process">>
KwResults == <<"Results & Analysis">>
KwFutureWork == <<"Future Work">>
KwFutureJp == <<"JpFuture">>
KwSectionDivider == <<"Section Divider">>

\* s.replace(sub, ""): every non-overlapping occurrence removed, left to right
RECURSIVE Remove(_, _)
Remove(sub, s) ==
  LET k == Find(sub, s)
  IN IF k = -1 THEN s
     ELSE SubSeq(s, 1, k) \o Remove(sub, SubSeq(s, k + Len(sub) + 1, Len(s)))

(***************************************************************************)
(* The content tree built by _parse_structured_content.                    *)
(***************************************************************************)
\* current_task = None
None == <<>>

\* the dict of a task just started
NewTask == [title |-> <<>>, problem |-> <<>>, solution |-> <<>>, result |-> <<>>]

\* sections = {"tasks": 0, "sections": []}
NoSections == [tasks |-> 0, sections |-> <<>>]

\* the content dict before the first line is read
EmptyContent ==
  [date |-> <<>>, task_list |-> <<>>, tasks |-> <<>>, future_work |-> <<>>,
   detected_info |-> NoSections]

\* body of the loop of _detect_content_sections, for one line
DetectLine(sections, raw) ==
  LET line == Strip(raw)
  IN IF In(KwTask, line) /\ In(KwSubtitle, line)
     THEN [sections EXCEPT !.tasks = @ + 1]
     ELSE IF In(KwSectionDivider, line)
     THEN IF In(<<"0", "1">>, line)
          THEN [sections EXCEPT !.sections = Append(@, "purpose")]
          ELSE IF In(<<"0", "2">>, line)
          THEN [sections EXCEPT !.sections = Append(@, "completed")]
          ELSE IF In(<<"0", "3">>, line)
          THEN [sections EXCEPT !.sections = Append(@, "future")]
          ELSE sections
     ELSE sections

\* _detect_content_sections(lines)
\* what the loop finds in each line on its own: an iteration adds to
\* sections and reads nothing of it
DetectedIn(lines) == [k \in DOMAIN lines |-> DetectLine(NoSections, lines[k])]

DetectContentSections(lines) ==
  [tasks |-> Cardinality({k \in DOMAIN lines : DetectedIn(lines)[k].tasks = 1}),
   sections |->
     [k \in DOMAIN SelectSeq(DetectedIn(lines), LAMBDA d : d.sections # <<>>) |->
        SelectSeq(DetectedIn(lines), LAMBDA d : d.sections # <<>>)[k].sections[1]]]

\* _save_current_content: the task after the call
SaveCurrentContent(task, content_type, content_buffer) ==
  IF content_buffer = <<>> THEN task
  ELSE LET content_text == Join(NL, content_buffer)
       IN IF content_type = "problem" THEN [task EXCEPT !.problem = content_text]
          ELSE IF content_type = "solution" THEN [task EXCEPT !.solution = content_text]
          ELSE IF content_type = "result" THEN [task EXCEPT !.result = content_text]
          ELSE task

\* "if current_task and current_content_buffer: self._save_current_content(...)"
\* current_task is None (<<>>) or holds the task dict (<<task>>)
SaveIfAny(current_task, content_type, content_buffer) ==
  IF current_task # None /\ content_buffer # <<>>
  THEN <<SaveCurrentContent(current_task[1], content_type, content_buffer)>>
  ELSE current_task

\* the title taken from a "- Content:" line
TitleOf(line) ==
  LET title_part == Strip(Remove(KwContent, line))
  IN IF StartsWith(title_part, <<"\"">>) /\ title_part[Len(title_part)] = "\""
     THEN SubSeq(title_part, 2, Len(title_part) - 1)
     ELSE title_part

\* (mutant) the task is put in front of the tasks appended before
AppendTaskFirst(tasks, task) == <<task>> \o tasks

\* content["tasks"].append(current_task)
AppendTask(tasks, task) == Append(tasks, task)

\* (mutant) the sub point is appended to an empty task_list too
AppendSubPointAlways(task_list, line) == Append(task_list, line)

\* "if content["task_list"]: content["task_list"].append(line)": task_list
\* after a sub-point line of the purpose section
AppendSubPoint(task_list, line) ==
  IF task_list # <<>> THEN Append(task_list, line) ELSE task_list

\* body of the loop of _parse_structured_content, for one line: the parser's
\* state (content, current_task, current_content_type, current_content_buffer)
\* after the iteration
ParseLine(c, ct, cct, buf, raw) ==
  LET line == Strip(raw)
      same == [content |-> c, current_task |-> ct, current_content_type |-> cct,
               current_content_buffer |-> buf]
  IN IF In(KwReportDate, line)
     THEN [same EXCEPT !.content.date = Strip(Split(":", line)[2])]
     ELSE IF In(KwPurposeOverview, line) \/ In(KwPurposeJp, line)
     THEN [same EXCEPT !.current_content_type = "purpose_tasks",
                       !.current_content_buffer = <<>>]
     ELSE IF In(<<Glyph0>>, line) /\ cct = "purpose_tasks"
     THEN [same EXCEPT !.content.task_list = Append(@, line)]
     ELSE IF In(<<Glyph1>>, line) /\ cct = "purpose_tasks"
     THEN [same EXCEPT !.content.task_list = AppendSubPoint(@, line)]
     ELSE IF In(KwTask, line) /\ In(KwSubtitle, line)
     THEN LET saved == SaveIfAny(ct, cct, buf)
          IN [content |-> IF saved # None
                          THEN [c EXCEPT !.tasks = AppendTask(@, saved[1])]
                          ELSE c,
              current_task |-> <<NewTask>>,
              current_content_type |-> "subtitle",
              current_content_buffer |-> <<>>]
     ELSE IF ct # None /\ StartsWith(line, KwContent) /\ cct = "subtitle"
     THEN [same EXCEPT !.current_task = <<[ct[1] EXCEPT !.title = TitleOf(line)]>>]
     ELSE IF In(KwProblem, line)
     THEN [same EXCEPT !.current_task = SaveIfAny(ct, cct, buf),
                       !.current_content_type = "problem",
                       !.current_content_buffer = <<>>]
     ELSE IF In(KwSolution, line)
     THEN [same EXCEPT !.current_task = SaveIfAny(ct, cct, buf),
                       !.current_content_type = "solution",
                       !.current_content_buffer = <<>>]
     ELSE IF In(KwResults, line)
     THEN [same EXCEPT !.current_task = SaveIfAny(ct, cct, buf),
                       !.current_content_type = "result",
                       !.current_content_buffer = <<>>]
     ELSE IF (In(<<Glyph0>>, line) \/ In(<<Glyph1>>, line))
             /\ cct \in {"problem", "solution", "result"}
     THEN [same EXCEPT !.current_content_buffer = Append(@, line)]
     ELSE IF In(KwFutureWork, line) \/ In(KwFutureJp, line)
     THEN [same EXCEPT !.current_content_type = "future_work",
                       !.current_content_buffer = <<>>]
     ELSE IF In(<<Glyph0>>, line) /\ cct = "future_work"
     THEN [same EXCEPT !.content.future_work = line]
     ELSE same

\* "Save last task", after the loop: the content returned
ParseEnd(c, ct, cct, buf) ==
  LET saved == SaveIfAny(ct, cct, buf)
  IN IF saved # None THEN [c EXCEPT !.tasks = AppendTask(@, saved[1])] ELSE c

(***************************************************************************)
(* The content balancer.                                                   *)
(***************************************************************************)
\* (mutant) the level-0 glyph is looked for anywhere in the line
IsMainPointAnywhere(line) == In(<<Glyph0>>, line)

\* line.startswith("● "): the balancer's and the paragraph builder's test for
\* a main point
IsMainPoint(line) == StartsWith(line, <<Glyph0, SP>>)

\* the elif branch '"○" in line': a sub point
IsSubPoint(line) == ~IsMainPoint(line) /\ In(<<Glyph1>>, line)

\* the state of the loop of _balance_content_distribution before the first line
BalanceStart ==
  [balanced_chunks |-> <<>>, current_chunk |-> <<>>, current_main_point |-> None,
   sub_point_count |-> 0]

\* (mutant) the limit tested with > instead of >=
TooManySubPointsOffByOne(b, max_sub_points) == b.sub_point_count > max_sub_points

\* "if sub_point_count >= max_sub_points": the chunk is full
TooManySubPoints(b, max_sub_points) == b.sub_point_count >= max_sub_points

\* (mutant) the new chunk does not repeat the main point
SplitChunkNoHeader(b, line) ==
  [b EXCEPT !.balanced_chunks = Append(@, Join(NL, b.current_chunk)),
            !.current_chunk = <<line>>,
            !.sub_point_count = 1]

\* (mutant) the sub point that opens the new chunk is not counted
SplitChunkCountZero(b, line) ==
  [b EXCEPT !.balanced_chunks = Append(@, Join(NL, b.current_chunk)),
            !.current_chunk = IF b.current_main_point # None
                              THEN <<b.current_main_point[1], line>>
                              ELSE <<line>>,
            !.sub_point_count = 0]

\* "Too many sub-points, split here": the current chunk is closed and a new one
\* opened that repeats the current main point, if any, before the sub point
SplitChunk(b, line) ==
  [b EXCEPT !.balanced_chunks = Append(@, Join(NL, b.current_chunk)),
            !.current_chunk = IF b.current_main_point # None
                              THEN <<b.current_main_point[1], line>>
                              ELSE <<line>>,
            !.sub_point_count = 1]

\* body of the loop of _balance_content_distribution, for one line
BalanceLine(b, raw, max_sub_points) ==
  LET line == Strip(raw)
  IN IF line = <<>> THEN b
     ELSE IF IsMainPoint(line)
     THEN LET flushed == IF b.current_chunk # <<>> /\ b.sub_point_count > 0
                         THEN [b EXCEPT !.balanced_chunks =
                                          Append(@, Join(NL, b.current_chunk)),
                                        !.current_chunk = <<>>,
                                        !.sub_point_count = 0]
                         ELSE b
          IN [flushed EXCEPT !.current_main_point = <<line>>,
                             !.current_chunk = <<line>>]
     ELSE IF In(<<Glyph1>>, line)
     THEN IF TooManySubPoints(b, max_sub_points)
          THEN SplitChunk(b, line)
          ELSE [b EXCEPT !.current_chunk = Append(@, line),
                         !.sub_point_count = @ + 1]
     ELSE [b EXCEPT !.current_chunk = Append(@, line)]

RECURSIVE BalanceFrom(_, _, _)
BalanceFrom(b, lines, max_sub_points) ==
  IF lines = <<>> THEN b
  ELSE BalanceFrom(BalanceLine(b, Head(lines), max_sub_points), Tail(lines),
                   max_sub_points)

\* _balance_content_distribution(content, max_sub_points): the list of chunks
BalanceContentDistribution(content, max_sub_points) ==
  LET b == BalanceFrom(BalanceStart, Split(NL, content), max_sub_points)
  IN IF b.current_chunk # <<>>
     THEN Append(b.balanced_chunks, Join(NL, b.current_chunk))
     ELSE b.balanced_chunks

(***************************************************************************)
(* Paragraphs of a body shape.                                             *)
(***************************************************************************)
\* the font and line spacing _parse_bullet_content gives every paragraph
BodyFont == "Noto Sans JP 14.0"
BodySpacing == "1.15 points"

\* (mutant) the text after the last level-1 glyph of the line
TextAfterLastSubGlyph(line) ==
  Strip(Split(Glyph1, line)[Len(Split(Glyph1, line))])

\* line.split("○", 1)[-1].strip(): the text after the first level-1 glyph
SubPointText(line) == Strip(Join(Glyph1, Tail(Split(Glyph1, line))))

\* the paragraph _parse_bullet_content builds for one non-blank stripped line
BulletParagraph(line) ==
  LET level == IF IsMainPoint(line) THEN 0 ELSE IF In(<<Glyph1>>, line) THEN 1 ELSE 0
      bullet_char == IF IsMainPoint(line) THEN Glyph0
                     ELSE IF In(<<Glyph1>>, line) THEN Glyph1 ELSE Glyph0
      text == IF IsMainPoint(line) THEN Strip(SubSeq(line, 3, Len(line)))
              ELSE IF In(<<Glyph1>>, line) THEN SubPointText(line)
              ELSE line
  IN [runs |-> <<[text |-> text, font |-> BodyFont]>>, alignment |-> "left",
      level |-> level, line_spacing |-> BodySpacing,
      bullet |-> [type |-> "bullet", char |-> bullet_char]]

RECURSIVE BulletParagraphs(_)
BulletParagraphs(lines) ==
  IF lines = <<>> THEN <<>>
  ELSE LET line == Strip(Head(lines))
       IN (IF line = <<>> THEN <<>> ELSE <<BulletParagraph(line)>>)
          \o BulletParagraphs(Tail(lines))

\* _parse_bullet_content(content)
ParseBulletContent(content) == BulletParagraphs(Split(NL, content))

(***************************************************************************)
(* Slide templates.  A shape keeps its type, the x of its position (the    *)
(* key the code looks a shape up by), whether it has a fill, and its       *)
(* paragraphs; a paragraph keeps its runs, level and bullet.               *)
(***************************************************************************)
\* position x of the shapes the code looks for
XContentTitle == 584875
XContentHeader == 2653144
XContentBody == 626250
XContentPageNo == 8768388
XDividerTitle == 2542873
XDividerNumber == 5151175
XCover == 698942
XAgendaTitle == 713225
XAgendaList == 4291175
XSubtitle == 1191600

\* fixed texts
JpPurpose == <<"JpPurpose">>
JpCompleted == <<"JpCompleted">>
JpFuture == <<"JpFuture">>
JpProgressReport == <<"JpProgressReport">>
TitlePurpose == <<"1", ".", SP>> \o JpPurpose
TitleCompleted == <<"2", ".", SP>> \o JpCompleted
TitleFuture == <<"3", ".", SP>> \o JpFuture

\* a paragraph of a template: one run, no bullet unless given
Para(text, level, bullet) ==
  [runs |-> <<[text |-> text, font |-> "template"]>>, alignment |-> "template",
   level |-> level, line_spacing |-> "template", bullet |-> bullet]

NoBullet == [type |-> "none", char |-> ""]

Shape(x, fill, paragraphs) ==
  [type |-> "text", x |-> x, fill |-> fill, paragraphs |-> paragraphs]

\* the paragraphs of the body shape of the content template
TemplateBody ==
  <<Para(<<"sample", SP, "main">>, 0, [type |-> "bullet", char |-> Glyph0]),
    Para(<<"sample", SP, "sub">>, 1, [type |-> "bullet", char |-> Glyph1])>>

\* self.as loaded by _load_templates
SlideTemplates ==
  [cover |->
     [slide_type |-> "cover",
      shapes |-> <<Shape(XCover, FALSE,
                     <<[runs |-> <<[text |-> <<"2", "0", "2", "5">>, font |-> "template"],
                                   [text |-> JpProgressReport, font |-> "template"]>>,
                        alignment |-> "template", level |-> 0,
                        line_spacing |-> "template", bullet |-> NoBullet]>>)>>],
   agenda |->
     [slide_type |-> "agenda_slide",
      shapes |-> <<Shape(XAgendaTitle, FALSE, <<Para(<<"JpAgenda">>, 0, NoBullet)>>),
                   Shape(XAgendaList, FALSE,
                     <<Para(JpPurpose, 0, [type |-> "numbered", char |-> ""]),
                       Para(JpCompleted, 0, [type |-> "numbered", char |-> ""]),
                       Para(JpFuture, 0, [type |-> "numbered", char |-> ""])>>)>>],
   section_divider |->
     [slide_type |-> "section_divider",
      shapes |-> <<Shape(XDividerTitle, FALSE, <<Para(JpPurpose, 0, NoBullet)>>),
                   Shape(XDividerNumber, FALSE, <<Para(<<"0", "1">>, 0, NoBullet)>>)>>],
   content |->
     [slide_type |-> "content",
      shapes |-> <<Shape(XContentTitle, FALSE, <<Para(<<"sample", SP, "title">>, 0, NoBullet)>>),
                   Shape(XContentBody, FALSE, TemplateBody),
                   Shape(XContentPageNo, FALSE, <<Para(<<"3">>, 0, NoBullet)>>),
                   Shape(XContentHeader, TRUE, <<Para(<<"sample", SP, "header">>, 0, NoBullet)>>)>>],
   subtitle |->
     [slide_type |-> "subtitle",
      shapes |-> <<Shape(XSubtitle, FALSE,
                     <<Para(<<"sample", SP, "code">>, 0, NoBullet),
                       Para(<<"sample", SP, "description">>, 0, NoBullet)>>)>>]]

(***************************************************************************)
(* The template-filling engine.                                            *)
(***************************************************************************)
\* shape["paragraphs"][0]["runs"][0]["text"] = text
SetFirstRun(shape, text) == [shape EXCEPT !.paragraphs[1].runs[1].text = text]

\* _paste_cover_slide(slide, date)
PasteCoverSlide(slide, date) ==
  IF Len(slide.shapes) >= 1
     /\ slide.shapes[1].paragraphs # <<>>
     /\ Len(slide.shapes[1].paragraphs[1].runs) >= 2
  THEN [slide EXCEPT !.shapes[1].paragraphs[1].runs[1].text = date,
                     !.shapes[1].paragraphs[1].runs[2].text = JpProgressReport]
  ELSE slide

\* _paste_section_divider(slide, number, title)
PasteSectionDivider(slide, number, title) ==
  [slide EXCEPT !.shapes =
     [k \in DOMAIN slide.shapes |->
        LET shape == slide.shapes[k]
        IN IF shape.type = "text" /\ shape.paragraphs # <<>>
              /\ shape.paragraphs[1].runs # <<>>
           THEN IF shape.x = XDividerTitle THEN SetFirstRun(shape, title)
                ELSE IF shape.x = XDividerNumber THEN SetFirstRun(shape, number)
                ELSE shape
           ELSE shape]]

\* _paste_text_to_slide(slide, title, content, slide_type="content"): one shape
PasteContentShape(shape, title, content) ==
  IF shape.type = "text" /\ shape.x = XContentTitle
  THEN SetFirstRun(shape, title)
  ELSE IF shape.type = "text" /\ (shape.x = XContentHeader \/ shape.fill)
  THEN SetFirstRun(shape, title)
  ELSE IF content # <<>> /\ shape.type = "text" /\ shape.x = XContentBody
  THEN [shape EXCEPT !.paragraphs = ParseBulletContent(content)]
  ELSE shape

\* str.lstrip(": ")
RECURSIVE LStripColonSpace(_)
LStripColonSpace(s) ==
  IF s # <<>> /\ Head(s) \in {":", SP} THEN LStripColonSpace(Tail(s)) ELSE s

\* the closing bracket U+3011 of a task code
RB == "]"

\* _paste_text_to_slide(slide, title, slide_type="subtitle"): the first shape
PasteSubtitleShape(shape, title) ==
  IF shape.paragraphs = <<>> THEN shape
  ELSE IF In(<<".", SP>>, title) /\ StartsWith(title, <<"2", ".">>)
  THEN LET k == Find(<<".", SP>>, title)
           number_part == SubSeq(title, 1, k) \o <<".", SP>>
           desc_part == SubSeq(title, k + 3, Len(title))
       IN IF In(<<RB>>, desc_part)
          THEN LET code_end == Find(<<RB>>, desc_part) + 1
                   code_part == SubSeq(desc_part, 1, code_end)
                   desc_only == LStripColonSpace(
                                  SubSeq(desc_part, code_end + 1, Len(desc_part)))
                   first == SetFirstRun(shape, number_part \o code_part)
               IN IF Len(shape.paragraphs) >= 2
                  THEN [first EXCEPT !.paragraphs[2].runs[1].text = Strip(desc_only)]
                  ELSE first
          ELSE SetFirstRun(shape, title)
  ELSE SetFirstRun(shape, title)

\* _paste_text_to_slide(slide, title, content, slide_type)
PasteTextToSlide(slide, title, content, slide_type) ==
  IF slide_type = "content"
  THEN [slide EXCEPT !.shapes =
          [k \in DOMAIN slide.shapes |-> PasteContentShape(slide.shapes[k], title, content)]]
  ELSE IF slide_type = "subtitle"
  THEN IF Len(slide.shapes) >= 1 /\ title # <<>>
       THEN [slide EXCEPT !.shapes[1] = PasteSubtitleShape(slide.shapes[1], title)]
       ELSE slide
  ELSE slide

\* max_sub_points of the call in _paste_content_to_templates
SolutionMaxSubPoints == 3

\* One appended slide, with a note of the append statement that made it:
\* origin.kind names the statement, origin.task the index i of the task loop
\* (0 outside it), origin.chunk the index of the solution chunk (0 otherwise).
Made(kind, task, chunk, slide) ==
  [origin |-> [kind |-> kind, task |-> task, chunk |-> chunk], slide |-> slide]

\* the content slide pasted with title and content
ContentSlide(templates, title, content) ==
  PasteTextToSlide(templates.content, title, content, "content")

\* the solution slides of task i: one per chunk of the balancer
SolutionSlides(templates, task, i) ==
  IF task.solution # <<>>
  THEN LET solution_chunks ==
             BalanceContentDistribution(task.solution, SolutionMaxSubPoints)
       IN [j \in 1..Len(solution_chunks) |->
             Made("solution", i, j,
                  ContentSlide(templates, TitleCompleted, solution_chunks[j]))]
  ELSE <<>>

\* (mutant) the result slide is appended before the solution slides
TaskSlidesResultFirst(templates, task, i) ==
  <<Made("subtitle", i, 0,
         PasteTextToSlide(templates.subtitle, task.title, <<>>, "subtitle"))>>
  \o (IF task.problem # <<>>
      THEN <<Made("problem", i, 0, ContentSlide(templates, TitleCompleted, task.problem))>>
      ELSE <<>>)
  \o (IF task.result # <<>>
      THEN <<Made("result", i, 0, ContentSlide(templates, TitleCompleted, task.result))>>
      ELSE <<>>)
  \o SolutionSlides(templates, task, i)

\* body of the task loop of _paste_content_to_templates: the slides appended
\* for task number i
TaskSlides(templates, task, i) ==
  <<Made("subtitle", i, 0,
         PasteTextToSlide(templates.subtitle, task.title, <<>>, "subtitle"))>>
  \o (IF task.problem # <<>>
      THEN <<Made("problem", i, 0, ContentSlide(templates, TitleCompleted, task.problem))>>
      ELSE <<>>)
  \o SolutionSlides(templates, task, i)
  \o (IF task.result # <<>>
      THEN <<Made("result", i, 0, ContentSlide(templates, TitleCompleted, task.result))>>
      ELSE <<>>)

RECURSIVE AllTaskSlides(_, _, _)
AllTaskSlides(templates, tasks, i) ==
  IF i > Len(tasks) THEN <<>>
  ELSE TaskSlides(templates, tasks[i], i) \o AllTaskSlides(templates, tasks, i + 1)

\* (mutant) section divider 03 is appended whatever sections were detected
FutureSlidesAlways(templates, content_data) ==
  <<Made("sec03", 0, 0,
         PasteSectionDivider(templates.section_divider, <<"0", "3">>, JpFuture))>>
  \o (IF content_data.future_work # <<>>
      THEN <<Made("future", 0, 0,
                  ContentSlide(templates, TitleFuture, content_data.future_work))>>
      ELSE <<>>)

\* the final slides of _paste_content_to_templates
FutureSlides(templates, content_data) ==
  IF \E k \in DOMAIN content_data.detected_info.sections :
       content_data.detected_info.sections[k] = "future"
  THEN <<Made("sec03", 0, 0,
              PasteSectionDivider(templates.section_divider, <<"0", "3">>, JpFuture))>>
       \o (IF content_data.future_work # <<>>
           THEN <<Made("future", 0, 0,
                       ContentSlide(templates, TitleFuture, content_data.future_work))>>
           ELSE <<>>)
  ELSE <<>>

\* _paste_content_to_templates(content_data): the slides in the order appended
PasteContentToTemplates(templates, content_data) ==
  <<Made("cover", 0, 0, PasteCoverSlide(templates.cover, content_data.date)),
    Made("agenda", 0, 0, templates.agenda),
    Made("sec01", 0, 0,
         PasteSectionDivider(templates.section_divider, <<"0", "1">>, JpPurpose)),
    Made("overview", 0, 0,
         ContentSlide(templates, TitlePurpose, Join(NL, content_data.task_list))),
    Made("sec02", 0, 0,
         PasteSectionDivider(templates.section_divider, <<"0", "2">>, JpCompleted))>>
  \o AllTaskSlides(templates, content_data.tasks, 1)
  \o FutureSlides(templates, content_data)

(***************************************************************************)
(* Objects.  The dicts and lists of a slide are objects with an identity:  *)
(* an object is a cell of the heap, a sequence of cells addressed by       *)
(* index.  The cell of a slide holds the addresses of its shapes, the cell *)
(* of a shape those of its paragraphs, the cell of a paragraph those of    *)
(* its runs.  Assignments through a reference change a cell in place.      *)
(***************************************************************************)
\* Body applied to value: names a result that is used more than once; the
\* value is computed before the body, as the statement before the next one
With(value, Body(_)) == CASE value = value -> Body(value)

\* the objects json.load / json.loads build for the runs of a paragraph
NewRuns(h, runs) ==
  [heap |-> h \o runs, refs |-> [k \in DOMAIN runs |-> Len(h) + k]]

NewParagraph(h, paragraph) ==
  With(NewRuns(h, paragraph.runs), LAMBDA r :
    [heap |-> Append(r.heap, [paragraph EXCEPT !.runs = r.refs]),
     ref |-> Len(r.heap) + 1])

RECURSIVE NewParagraphs(_, _)
NewParagraphs(h, paragraphs) ==
  IF paragraphs = <<>> THEN [heap |-> h, refs |-> <<>>]
  ELSE With(NewParagraph(h, Head(paragraphs)), LAMBDA first :
       With(NewParagraphs(first.heap, Tail(paragraphs)), LAMBDA rest :
         [heap |-> rest.heap, refs |-> <<first.ref>> \o rest.refs]))

NewShape(h, shape) ==
  With(NewParagraphs(h, shape.paragraphs), LAMBDA ps :
    [heap |-> Append(ps.heap, [shape EXCEPT !.paragraphs = ps.refs]),
     ref |-> Len(ps.heap) + 1])

RECURSIVE NewShapes(_, _)
NewShapes(h, shapes) ==
  IF shapes = <<>> THEN [heap |-> h, refs |-> <<>>]
  ELSE With(NewShape(h, Head(shapes)), LAMBDA first :
       With(NewShapes(first.heap, Tail(shapes)), LAMBDA rest :
         [heap |-> rest.heap, refs |-> <<first.ref>> \o rest.refs]))

\* json.loads(text): a slide built of new objects
NewSlide(h, slide) ==
  With(NewShapes(h, slide.shapes), LAMBDA ss :
    [heap |-> Append(ss.heap, [slide EXCEPT !.shapes = ss.refs]),
     ref |-> Len(ss.heap) + 1])

\* json.dumps(obj): the value of the objects reached from a reference
ParagraphAt(h, a) ==
  LET runs == h[a].runs
  IN [h[a] EXCEPT !.runs = [k \in DOMAIN runs |-> h[runs[k]]]]

ShapeAt(h, a) ==
  LET paragraphs == h[a].paragraphs
  IN [h[a] EXCEPT !.paragraphs =
        [k \in DOMAIN paragraphs |-> ParagraphAt(h, paragraphs[k])]]

SlideAt(h, a) ==
  LET shapes == h[a].shapes
  IN [h[a] EXCEPT !.shapes = [k \in DOMAIN shapes |-> ShapeAt(h, shapes[k])]]

\* (mutant) a shallow copy: a new slide dict that shares the template's shapes
DeepCopyShallow(h, a) == [heap |-> Append(h, h[a]), ref |-> Len(h) + 1]

\* json.loads(json.dumps(self.slide_templates[...]))
DeepCopy(h, a) == NewSlide(h, SlideAt(h, a))

\* self.slide_templates = self._load_templates(): the heap and the dict of
\* the five templates after __init__
LoadTemplates ==
  With(NewSlide(<<>>, SlideTemplates.cover), LAMBDA cover :
  With(NewSlide(cover.heap, SlideTemplates.agenda), LAMBDA agenda :
  With(NewSlide(agenda.heap, SlideTemplates.section_divider), LAMBDA section_divider :
  With(NewSlide(section_divider.heap, SlideTemplates.content), LAMBDA content_slide :
  With(NewSlide(content_slide.heap, SlideTemplates.subtitle), LAMBDA subtitle :
    [heap |-> subtitle.heap,
     templates |-> [cover |-> cover.ref, agenda |-> agenda.ref,
                    section_divider |-> section_divider.ref,
                    content |-> content_slide.ref, subtitle |-> subtitle.ref]])))))

\* shape["paragraphs"][0]["runs"][0]["text"] = text
HSetFirstRun(h, shape, text) ==
  [h EXCEPT ![h[h[shape].paragraphs[1]].runs[1]].text = text]

\* _paste_cover_slide(slide, date) on the objects of slide
HPasteCoverSlide(h, slide, date) ==
  LET shapes == h[slide].shapes
  IN IF /\ Len(shapes) >= 1
        /\ h[shapes[1]].paragraphs # <<>>
        /\ Len(h[h[shapes[1]].paragraphs[1]].runs) >= 2
     THEN LET runs == h[h[shapes[1]].paragraphs[1]].runs
              dated == [h EXCEPT ![runs[1]].text = date]
          IN [dated EXCEPT ![runs[2]].text = JpProgressReport]
     ELSE h

\* body of the loop of _paste_section_divider, for one shape
HDividerShape(h, shape, number, title) ==
  IF /\ h[shape].type = "text"
     /\ h[shape].paragraphs # <<>>
     /\ h[h[shape].paragraphs[1]].runs # <<>>
  THEN IF h[shape].x = XDividerTitle THEN HSetFirstRun(h, shape, title)
       ELSE IF h[shape].x = XDividerNumber THEN HSetFirstRun(h, shape, number)
       ELSE h
  ELSE h

RECURSIVE HDividerShapes(_, _, _, _)
HDividerShapes(h, shapes, number, title) ==
  IF shapes = <<>> THEN h
  ELSE HDividerShapes(HDividerShape(h, Head(shapes), number, title),
                      Tail(shapes), number, title)

\* _paste_section_divider(slide, number, title) on the objects of slide
HPasteSectionDivider(h, slide, number, title) ==
  HDividerShapes(h, h[slide].shapes, number, title)

\* body of the content loop of _paste_text_to_slide, for one shape
HContentShape(h, shape, title, content) ==
  IF h[shape].type = "text" /\ h[shape].x = XContentTitle
  THEN HSetFirstRun(h, shape, title)
  ELSE IF h[shape].type = "text" /\ (h[shape].x = XContentHeader \/ h[shape].fill)
  THEN HSetFirstRun(h, shape, title)
  ELSE IF content # <<>> /\ h[shape].type = "text" /\ h[shape].x = XContentBody
  THEN With(NewParagraphs(h, ParseBulletContent(content)), LAMBDA paragraphs :
         [paragraphs.heap EXCEPT ![shape].paragraphs = paragraphs.refs])
  ELSE h

RECURSIVE HContentShapes(_, _, _, _)
HContentShapes(h, shapes, title, content) ==
  IF shapes = <<>> THEN h
  ELSE HContentShapes(HContentShape(h, Head(shapes), title, content),
                      Tail(shapes), title, content)

\* the texts the subtitle branch of _paste_text_to_slide writes for title:
\* that of the first paragraph, and <<that of the second>> or <<>> when the
\* second paragraph is not written
SubtitleTexts(title) ==
  IF In(<<".", SP>>, title) /\ StartsWith(title, <<"2", ".">>)
  THEN LET k == Find(<<".", SP>>, title)
           number_part == SubSeq(title, 1, k) \o <<".", SP>>
           desc_part == SubSeq(title, k + 3, Len(title))
       IN IF In(<<RB>>, desc_part)
          THEN LET code_end == Find(<<RB>>, desc_part) + 1
                   code_part == SubSeq(desc_part, 1, code_end)
                   desc_only == LStripColonSpace(
                                  SubSeq(desc_part, code_end + 1, Len(desc_part)))
               IN [first |-> number_part \o code_part,
                   second |-> <<Strip(desc_only)>>]
          ELSE [first |-> title, second |-> <<>>]
  ELSE [first |-> title, second |-> <<>>]

\* the subtitle branch of _paste_text_to_slide on the objects of the first shape
HSubtitleShape(h, shape, title) ==
  IF h[shape].paragraphs = <<>> THEN h
  ELSE With(SubtitleTexts(title), LAMBDA texts :
       With(HSetFirstRun(h, shape, texts.first), LAMBDA first :
         IF texts.second # <<>> /\ Len(h[shape].paragraphs) >= 2
         THEN [first EXCEPT ![h[h[shape].paragraphs[2]].runs[1]].text =
                              texts.second[1]]
         ELSE first))

\* _paste_text_to_slide(slide, title, content, slide_type) on the objects of slide
HPasteTextToSlide(h, slide, title, content, slide_type) ==
  IF slide_type = "content"
  THEN HContentShapes(h, h[slide].shapes, title, content)
  ELSE IF slide_type = "subtitle"
  THEN IF Len(h[slide].shapes) >= 1 /\ title # <<>>
       THEN HSubtitleShape(h, h[slide].shapes[1], title)
       ELSE h
  ELSE h

\* the key of slide_templates copied by the append statement o
TemplateKey(o) ==
  IF o.kind \in {"cover", "agenda", "subtitle"} THEN o.kind
  ELSE IF o.kind \in {"sec01", "sec02", "sec03"} THEN "section_divider"
  ELSE "content"

\* the title and the content text the append statement o pastes
TitleFor(o) ==
  IF o.kind = "overview" THEN TitlePurpose
  ELSE IF o.kind = "future" THEN TitleFuture
  ELSE TitleCompleted

ContentFor(content_data, o) ==
  IF o.kind = "overview" THEN Join(NL, content_data.task_list)
  ELSE IF o.kind = "problem" THEN content_data.tasks[o.task].problem
  ELSE IF o.kind = "solution"
  THEN BalanceContentDistribution(content_data.tasks[o.task].solution,
                                  SolutionMaxSubPoints)[o.chunk]
  ELSE IF o.kind = "result" THEN content_data.tasks[o.task].result
  ELSE content_data.future_work

\* one append statement of _paste_content_to_templates on the objects: the
\* template is copied, the copy is pasted into, and its reference is appended
HMake(st, templates, content_data, o) ==
  With(DeepCopy(st.heap, templates[TemplateKey(o)]), LAMBDA c :
    [heap |->
       IF o.kind = "cover" THEN HPasteCoverSlide(c.heap, c.ref, content_data.date)
       ELSE IF o.kind = "agenda" THEN c.heap
       ELSE IF o.kind = "sec01"
       THEN HPasteSectionDivider(c.heap, c.ref, <<"0", "1">>, JpPurpose)
       ELSE IF o.kind = "sec02"
       THEN HPasteSectionDivider(c.heap, c.ref, <<"0", "2">>, JpCompleted)
       ELSE IF o.kind = "sec03"
       THEN HPasteSectionDivider(c.heap, c.ref, <<"0", "3">>, JpFuture)
       ELSE IF o.kind = "subtitle"
       THEN HPasteTextToSlide(c.heap, c.ref, content_data.tasks[o.task].title,
                              <<>>, "subtitle")
       ELSE HPasteTextToSlide(c.heap, c.ref, TitleFor(o),
                              ContentFor(content_data, o), "content"),
     slides |-> Append(st.slides, c.ref)])

\* the append statements of plan, one after the other; each works on the
\* heap the one before left (objects are only ever added to the heap)
RECURSIVE HMakeAll(_, _, _, _)
HMakeAll(st, templates, content_data, plan) ==
  IF plan = <<>> THEN st
  ELSE With(HMake(st, templates, content_data, Head(plan)), LAMBDA next :
         IF Len(next.heap) >= Len(st.heap)
         THEN HMakeAll(next, templates, content_data, Tail(plan))
         ELSE st)

\* _paste_content_to_templates(content_data) on the objects: the heap and
\* the list of slide references after the call
HPasteContentToTemplates(h, templates, content_data) ==
  With(PasteContentToTemplates(
         [key \in DOMAIN templates |-> SlideAt(h, templates[key])],
         content_data),
       LAMBDA made :
         HMakeAll([heap |-> h, slides |-> <<>>], templates, content_data,
                  [k \in DOMAIN made |-> made[k].origin]))

(***************************************************************************)
(* Input lines.                                                            *)
(***************************************************************************)
LTaskSubtitle == <<"Task", SP, "Subtitle">>
LContent == KwContent \o <<SP, "\"", "t", "\"">>
LContent2 == KwContent \o <<SP, "\"", "u", "\"">>
LProblem == <<"Task", SP>> \o KwProblem
LSolution == <<"Task", SP>> \o KwSolution
LResults == <<"Task", SP>> \o KwResults
LFutureWork == KwFutureWork
LPurpose == KwPurposeOverview
LDivider01 == KwSectionDivider \o <<SP, "0", "1">>
LDivider02 == KwSectionDivider \o <<SP, "0", "2">>
LDivider03 == KwSectionDivider \o <<SP, "0", "3">>
\* "SLIDE 102: Section Divider 03", the line create_structured_format writes
\* for 24 tasks
LDivider03At102 == <<"SLIDE", SP, "1", "0", "2", ":", SP>> \o LDivider03
LMain == <<SP, SP, Glyph0, SP, "a">>
LSub == <<SP, SP, SP, SP, Glyph1, SP, "b">>
LMain2 == <<SP, SP, Glyph0, SP, "c">>
LDate == KwReportDate \o <<SP, "d">>
\* a date line whose text holds a colon
LDateColon == KwReportDate \o <<SP, "e", ":", "f">>
\* a bullet line whose text names a task subtitle
LMainNamingSubtitle == <<Glyph0, SP, "Task", SP, "Subtitle">>
\* a bullet line whose text names the future work
LMainNamingFuture == <<Glyph0, SP, "Future Work">>
\* a bullet line with an empty text, as create_structured_format writes for
\* an empty result, analysis or comment
LMainEmpty == <<SP, SP, Glyph0, SP>>
LPlain == <<"x">>
LBlank == <<>>

\* the lines an input of the free-input specification is made of
LineSet ==
  {LTaskSubtitle, LContent, LProblem, LSolution, LResults, LFutureWork, LPurpose,
   LDivider03, LDivider03At102, LMain, LSub, LDate, LMainNamingSubtitle,
   LMainNamingFuture, LDateColon, LMain2, LContent2, LMainEmpty,
   LPlain, LBlank}

\* the lines a text handed to the balancer is made of
BalLineSet ==
  {<<Glyph0, SP, "a">>, <<Glyph0, SP, "b">>, <<SP, Glyph1, SP, "c">>, LPlain, LBlank}

(***************************************************************************)
(* State.                                                                  *)
(***************************************************************************)
VARIABLES
  pc,                      \* "parse", "paste", "done": the step of generate_from_structured_format
  todo,                    \* the lines of a scenario text not read yet
  nread,                   \* the number of lines read
  content,                 \* the content dict
  current_task,            \* None or <<the task dict>>
  current_content_type,    \* "none" (None), "purpose_tasks", "subtitle", ...
  current_content_buffer,  \* the buffered bullet lines
  slides,                  \* the slides returned by _paste_content_to_templates
  slide_log,               \* for each slide, the append statement that made it
  bal_content,             \* the text handed to _balance_content_distribution
  bal_max,                 \* its max_sub_points
  bal_chunks,              \* the chunks returned, <<>> before the call
  input_has,               \* what the lines read so far held (history, see Noted)
  heap,                    \* the objects: cell number a is the object at address a
  slide_templates,         \* self.slide_templates: for each key, a slide reference
  slide_refs,              \* the list returned by _paste_content_to_templates,
                           \* as references
  arg,                     \* the argument of a function called on its own
  out,                     \* what the call returned, <<>> before the call
  prs,                     \* the slides of the presentation document, in order
  original_slide_count,    \* the number of slides of the template document
  files,                   \* the files the run has written: name -> text
  response_content,        \* the text the model returned, <<>> before the call
  result,                  \* <<>> or <<the value parsed from the response>>
  raised,                  \* <<>> or <<the exception that ended the run>>
  env,                     \* what the run finds: files present, model responses
  exit_code,               \* <<>> while the run goes on, then <<its exit status>>
  diagnostic,              \* whether an error message was printed
  llm_calls                \* the number of calls of the language model

vars ==
  <<pc, todo, nread, content, current_task, current_content_type,
    current_content_buffer, slides, slide_log, bal_content,
    bal_max, bal_chunks, input_has, heap, slide_templates, slide_refs,
    arg, out, prs, original_slide_count, files, response_content, result,
    raised, env, exit_code, diagnostic, llm_calls>>

deck == <<prs, original_slide_count>>
response == <<response_content, result>>
run == <<files, response, raised, env, exit_code, diagnostic, llm_calls>>
call == <<arg, out>>

objects == <<heap, slide_templates, slide_refs>>
parser == <<content, current_task, current_content_type, current_content_buffer>>
balancer == <<bal_content, bal_max, bal_chunks>>

\* History of the input: what is noted of line raw, read in parser state cct.
\*   "divider03"      a Section Divider 03 marker line
\*   "future_bullet"  a bullet line inside the future-work section
\*   "future_marker"  a line holding the future-work marker of the parser
\*   "date_marker"    a line holding the date marker
\*   "future_main"    a level-0 bullet line, holding no marker, inside the
\*                    future-work section
Noted(cct, raw) ==
  LET line == Strip(raw)
  IN {t \in {"divider03"} : In(KwSectionDivider, line) /\ In(<<"0", "3">>, line)}
     \cup {t \in {"future_marker"} : In(KwFutureWork, line) \/ In(KwFutureJp, line)}
     \cup {t \in {"date_marker"} : In(KwReportDate, line)}
     \cup {t \in {"future_main"} :
             /\ cct = "future_work"
             /\ In(<<Glyph0>>, line)
             /\ ~In(KwReportDate, line)
             /\ ~(In(KwPurposeOverview, line) \/ In(KwPurposeJp, line))
             /\ ~(In(KwTask, line) /\ In(KwSubtitle, line))
             /\ ~(In(KwProblem, line) \/ In(KwSolution, line) \/ In(KwResults, line))
             /\ ~(In(KwFutureWork, line) \/ In(KwFutureJp, line))}
     \cup {t \in {"future_bullet"} :
             /\ cct = "future_work"
             /\ In(<<Glyph0>>, line) \/ In(<<Glyph1>>, line)}

\* the objects are left out: slides are followed as values only
NoObjects ==
  /\ heap = <<>>
  /\ slide_templates = <<>>
  /\ slide_refs = <<>>

\* no presentation document is open
NoDeck ==
  /\ prs = <<>>
  /\ original_slide_count = 0

\* the pipeline is not run
NoRun ==
  /\ files = <<>>
  /\ response_content = <<>>
  /\ result = <<>>
  /\ raised = <<>>
  /\ env = <<>>
  /\ exit_code = <<>>
  /\ diagnostic = FALSE
  /\ llm_calls = 0

\* the objects after __init__: the templates are loaded
LoadedObjects ==
  /\ heap = LoadTemplates.heap
  /\ slide_templates = LoadTemplates.templates
  /\ slide_refs = <<>>

InitCommon ==
  /\ input_has = {}
  /\ arg = <<>>
  /\ out = <<>>
  /\ nread = 0
  /\ current_task = None
  /\ current_content_type = "none"
  /\ current_content_buffer = <<>>
  /\ slides = <<>>
  /\ slide_log = <<>>
  /\ bal_content = <<>>
  /\ bal_max = 0
  /\ bal_chunks = <<>>

(***************************************************************************)
(* Free input: the text is read line by line, any line of LineSet next.    *)
(* _detect_content_sections and the parsing loop both walk the lines once, *)
(* in order, and detected_info is read only by _paste_content_to_templates *)
(* after the parse, so each line read is handed to the body of both loops. *)
(***************************************************************************)
Init ==
  /\ InitCommon
  /\ NoObjects
  /\ NoDeck
  /\ NoRun
  /\ pc = "parse"
  /\ todo = <<>>
  /\ content = EmptyContent

\* one iteration of the parsing loop on line raw
Parse(raw) ==
  LET p == ParseLine(content, current_task, current_content_type,
                     current_content_buffer, raw)
  IN /\ content' = p.content
     /\ current_task' = p.current_task
     /\ current_content_type' = p.current_content_type
     /\ current_content_buffer' = p.current_content_buffer

ReadLine ==
  /\ pc = "parse"
  /\ nread < MaxLines
  /\ \E raw \in LineSet :
       LET p == ParseLine(content, current_task, current_content_type,
                          current_content_buffer, raw)
       IN /\ content' = [p.content EXCEPT !.detected_info = DetectLine(@, raw)]
          /\ current_task' = p.current_task
          /\ current_content_type' = p.current_content_type
          /\ current_content_buffer' = p.current_content_buffer
          /\ input_has' = input_has \cup Noted(current_content_type, raw)
  /\ nread' = nread + 1
  /\ UNCHANGED <<deck, run, pc, todo, slides, slide_log, balancer, objects, call>>

\* the end of the input: the last task is saved and _parse_structured_content returns
EndOfInput ==
  /\ pc = "parse"
  /\ todo = <<>>
  /\ content' = ParseEnd(content, current_task, current_content_type,
                         current_content_buffer)
  /\ pc' = "paste"
  /\ UNCHANGED <<deck, run, todo, nread, current_task, current_content_type,
                 current_content_buffer, slides, slide_log, balancer,
                 input_has, objects, call>>

\* slides = self._paste_content_to_templates(content_data)
Paste ==
  /\ pc = "paste"
  /\ LET made == PasteContentToTemplates(SlideTemplates, content)
     IN /\ slides' = [k \in DOMAIN made |-> made[k].slide]
        /\ slide_log' = [k \in DOMAIN made |-> made[k].origin]
  /\ pc' = "done"
  /\ UNCHANGED <<deck, run, todo, nread, parser, balancer, input_has, objects, call>>

Next == ReadLine \/ EndOfInput \/ Paste

Spec == Init /\ [][Next]_vars

(***************************************************************************)
(* Scenario input: a whole structured text, laid out as                    *)
(* create_structured_format lays it out, is parsed and pasted.             *)
(***************************************************************************)
RECURSIVE Repeat(_, _)
Repeat(line, n) == IF n = 0 THEN <<>> ELSE <<line>> \o Repeat(line, n - 1)

\* the lines of one task: subtitle, problem, solution with n level-1 lines, result
TaskBlock(n) ==
  <<LTaskSubtitle, LContent, LBlank, LProblem, LMain, LBlank, LSolution, LMain>>
  \o Repeat(LSub, n)
  \o <<LBlank, LResults, LMain, LBlank>>

RECURSIVE TaskBlocks(_, _)
TaskBlocks(subs, k) ==
  IF k > Len(subs) THEN <<>> ELSE TaskBlock(subs[k]) \o TaskBlocks(subs, k + 1)

ScenarioHeads ==
  {<<>>,
   <<LDate>>,
   <<LDate, LDivider01, LPurpose, LMain, LSub, LDivider02>>}

ScenarioTails ==
  {<<>>,
   <<LDivider03>>,
   <<LDivider03, LFutureWork, LMain>>}

ScenarioTexts ==
  {head \o TaskBlocks(subs, 1) \o tail :
     head \in ScenarioHeads, tail \in ScenarioTails,
     subs \in UNION {[1..n -> 0..MaxSubs] : n \in 0..MaxTasks}}

InitScenario ==
  /\ InitCommon
  /\ LoadedObjects
  /\ NoDeck
  /\ NoRun
  /\ pc = "parse"
  /\ todo \in ScenarioTexts
  /\ content = [EmptyContent EXCEPT !.detected_info = DetectContentSections(todo)]

ReadScript ==
  /\ pc = "parse"
  /\ todo # <<>>
  /\ Parse(Head(todo))
  /\ input_has' = input_has \cup Noted(current_content_type, Head(todo))
  /\ todo' = Tail(todo)
  /\ nread' = nread + 1
  /\ UNCHANGED <<deck, run, pc, slides, slide_log, balancer, objects, call>>

\* slides = self._paste_content_to_templates(content_data), with the objects
\* the call copies, builds and assigns to
PasteObjects ==
  /\ pc = "paste"
  /\ \E made \in {PasteContentToTemplates(SlideTemplates, content)},
        pasted \in {HPasteContentToTemplates(heap, slide_templates, content)} :
       /\ slides' = [k \in DOMAIN made |-> made[k].slide]
       /\ slide_log' = [k \in DOMAIN made |-> made[k].origin]
       /\ heap' = pasted.heap
       /\ slide_refs' = pasted.slides
  /\ pc' = "done"
  /\ UNCHANGED <<deck, run, todo, nread, parser, balancer, input_has, slide_templates, call>>

NextScenario == ReadScript \/ EndOfInput \/ PasteObjects

SpecScenario == InitScenario /\ [][NextScenario]_vars

(***************************************************************************)
(* The balancer alone: a text of up to MaxBalLines lines of BalLineSet is  *)
(* put together, then balanced with a max_sub_points of 0..MaxSubPoints.   *)
(***************************************************************************)
InitBalance ==
  /\ InitCommon
  /\ NoObjects
  /\ NoDeck
  /\ NoRun
  /\ pc = "compose"
  /\ todo = <<>>
  /\ content = EmptyContent

AddLine ==
  /\ pc = "compose"
  /\ nread < MaxBalLines
  /\ \E raw \in BalLineSet :
       bal_content' = IF nread = 0 THEN raw ELSE bal_content \o <<NL>> \o raw
  /\ nread' = nread + 1
  /\ UNCHANGED <<deck, run, pc, todo, parser, slides, slide_log, bal_max,
                 bal_chunks, input_has, objects, call>>

Balance ==
  /\ pc = "compose"
  /\ \E max_sub_points \in 0..MaxSubPoints :
       /\ bal_max' = max_sub_points
       /\ bal_chunks' = BalanceContentDistribution(bal_content, max_sub_points)
  /\ pc' = "balanced"
  /\ UNCHANGED <<deck, run, todo, nread, parser, slides, slide_log, bal_content,
                 input_has, objects, call>>

NextBalance == AddLine \/ Balance

SpecBalance == InitBalance /\ [][NextBalance]_vars

(***************************************************************************)
(* One line alone: any line of up to MaxLineTokens tokens is handed to     *)
(* _parse_bullet_content, or to the loop of the balancer.                  *)
(***************************************************************************)
LineTokens == {Glyph0, Glyph1, SP, "a"}

InitLine ==
  /\ InitCommon
  /\ NoObjects
  /\ NoDeck
  /\ NoRun
  /\ pc = "compose"
  /\ todo = <<>>
  /\ content = EmptyContent

AddToken ==
  /\ pc = "compose"
  /\ Len(arg) < MaxLineTokens
  /\ \E t \in LineTokens : arg' = Append(arg, t)
  /\ UNCHANGED <<deck, run, pc, todo, nread, parser, slides, slide_log, balancer,
                 input_has, objects, out>>

\* paragraphs = self._parse_bullet_content(arg)
BuildParagraphs ==
  /\ pc = "compose"
  /\ out' = ParseBulletContent(arg)
  /\ pc' = "paragraphs"
  /\ UNCHANGED <<deck, run, todo, nread, parser, slides, slide_log, balancer,
                 input_has, objects, arg>>

\* the loop of _balance_content_distribution(arg, max_sub_points): the
\* loop's variables after the last line
CountSubPoints ==
  /\ pc = "compose"
  /\ \E max_sub_points \in 0..MaxSubPoints :
       out' = BalanceFrom(BalanceStart, Split(NL, arg), max_sub_points)
  /\ pc' = "counted"
  /\ UNCHANGED <<deck, run, todo, nread, parser, slides, slide_log, balancer,
                 input_has, objects, arg>>

NextLine == AddToken \/ BuildParagraphs \/ CountSubPoints

SpecLine == InitLine /\ [][NextLine]_vars

(***************************************************************************)
(* One subtitle slide alone: a task title is put together from a section   *)
(* number, a task code and a description, each of which may be missing,    *)
(* and handed to _paste_text_to_slide with slide_type "subtitle".          *)
(***************************************************************************)
\* section numbers 'N.M. ' a title begins with
NumberForms ==
  {<<"2", ".", "1", ".", SP>>, <<"2", ".", "1", "0", ".", SP>>,
   <<"1", ".", "1", ".", SP>>, <<"3", ".", "2", ".", SP>>}

TitleNumbers == NumberForms \cup {<<>>, <<"2", ".", SP>>}

\* task codes that end with the closing bracket
CodeForms == {<<"c", RB>>, <<"c", SP, "[", "d", RB>>}

TitleCodes == CodeForms \cup {<<>>, <<"c">>}

\* descriptions, with the blank that separates them from the code
DescriptionForms == {<<SP, "e">>, <<SP, "e", ".", SP, "f">>}

TitleDescriptions == DescriptionForms \cup {<<>>, <<":", SP, "e">>}

InitTitle ==
  /\ InitCommon
  /\ NoObjects
  /\ NoDeck
  /\ NoRun
  /\ pc = "number"
  /\ todo = <<>>
  /\ content = EmptyContent

ChooseNumber ==
  /\ pc = "number"
  /\ \E number \in TitleNumbers : arg' = number
  /\ pc' = "code"
  /\ UNCHANGED <<deck, run, todo, nread, parser, slides, slide_log, balancer,
                 input_has, objects, out>>

ChooseCode ==
  /\ pc = "code"
  /\ \E code \in TitleCodes : arg' = arg \o code
  /\ pc' = "description"
  /\ UNCHANGED <<deck, run, todo, nread, parser, slides, slide_log, balancer,
                 input_has, objects, out>>

ChooseDescription ==
  /\ pc = "description"
  /\ \E description \in TitleDescriptions : arg' = arg \o description
  /\ pc' = "title"
  /\ UNCHANGED <<deck, run, todo, nread, parser, slides, slide_log, balancer,
                 input_has, objects, out>>

\* subtitle = copy of the subtitle template
\* self._paste_text_to_slide(subtitle, arg, slide_type="subtitle")
PasteSubtitle ==
  /\ pc = "title"
  /\ out' = PasteTextToSlide(SlideTemplates.subtitle, arg, <<>>, "subtitle")
  /\ pc' = "subtitle"
  /\ UNCHANGED <<deck, run, todo, nread, parser, slides, slide_log, balancer,
                 input_has, objects, arg>>

NextTitle == ChooseNumber \/ ChooseCode \/ ChooseDescription \/ PasteSubtitle

SpecTitle == InitTitle /\ [][NextTitle]_vars

(***************************************************************************)
(* The assembler: main of master_template_builder.py and step 2 of main of *)
(* main.py.  The presentation is followed as the list of its slides: a     *)
(* slide is one of the template document, or the one made for a record of  *)
(* the script, with the layout it was made with.  The shapes of the slides *)
(* are not followed.                                                       *)
(***************************************************************************)
MaxTemplateSlides == 5
MaxRecords == 3

\* the slide types a record of the script may name
RecordTypes == {"cover", "section_divider", "content", "chart"}

Programs == {"master_template_builder", "main"}

\* slide k of the template document
TemplateSlide(k) == [of |-> "template", index |-> k, layout |-> k]

\* layout_map: the layouts of the first four template slides, or empty
LayoutMap(count) ==
  IF count >= 4
  THEN [cover |-> 1, agenda_slide |-> 2, subtitle |-> 3, section_divider |-> 3,
        content |-> 4]
  ELSE <<>>

\* the layout a record of slide_type is given: <<layout>>, or <<>> for None;
\* layout 0 is prs.slide_layouts[-1]
LayoutFor(program, layout_map, slide_type) ==
  IF slide_type \in DOMAIN layout_map THEN <<layout_map[slide_type]>>
  ELSE IF "content" \in DOMAIN layout_map THEN <<layout_map["content"]>>
  ELSE IF program = "master_template_builder" THEN <<0>>
  ELSE <<>>

\* (mutant) the slide is put in front of the others
AddSlideFirst(slides_of_prs, slide) == <<slide>> \o slides_of_prs

\* prs.slides.add_slide(layout)
AddSlide(slides_of_prs, slide) == Append(slides_of_prs, slide)

\* (mutant) the last slide is removed
RemoveLastSlide(xml_slides) ==
  IF xml_slides # <<>> THEN SubSeq(xml_slides, 1, Len(xml_slides) - 1)
  ELSE xml_slides

\* slides = list(xml_slides); if slides: xml_slides.remove(slides[0])
RemoveFirstSlide(xml_slides) ==
  IF xml_slides # <<>> THEN Tail(xml_slides) ELSE xml_slides

\* for i in range(count): the first slide is removed
RECURSIVE RemoveSlides(_, _)
RemoveSlides(xml_slides, count) ==
  IF count = 0 THEN xml_slides
  ELSE RemoveSlides(RemoveFirstSlide(xml_slides), count - 1)

\* open(name, 'w') and f.write(text)
Write(written, name, text) ==
  [n \in DOMAIN written \cup {name} |-> IF n = name THEN text ELSE written[n]]

\* an exception of kind is raised and reaches "except Exception as e" of main:
\* the error and the traceback are printed and main returns
Except(kind) ==
  /\ raised' = <<kind>>
  /\ diagnostic' = TRUE
  /\ exit_code' = <<0>>
  /\ pc' = "failed"

\* an element of slides_data that is not a dict has no get
NotADict == "not a dict"

\* prs = Presentation(str(template_path)): the template document is loaded
InitAssemble ==
  /\ InitCommon
  /\ NoObjects
  /\ pc = "load"
  /\ todo = <<>>
  /\ content = EmptyContent
  /\ \E count \in 0..MaxTemplateSlides :
       /\ prs = [k \in 1..count |-> TemplateSlide(k)]
       /\ original_slide_count = count
  /\ \E program \in Programs : env = [program |-> program]
  /\ files = <<>>
  /\ response_content = <<>>
  /\ result = <<>>
  /\ raised = <<>>
  /\ exit_code = <<>>
  /\ diagnostic = FALSE
  /\ llm_calls = 0

\* slides_data = json.load(f): arg is slides_data, as the list of the slide
\* types of its records
LoadScript ==
  /\ pc = "load"
  /\ arg' \in UNION {[1..n -> RecordTypes] : n \in 0..MaxRecords}
  /\ pc' = "create"
  /\ UNCHANGED <<todo, nread, parser, slides, slide_log, balancer, input_has,
                 objects, out, deck, run>>

\* one iteration of "for i, slide_data in enumerate(slides_data, 1)"
CreateSlide ==
  /\ pc = "create"
  /\ nread < Len(arg)
  /\ IF arg[nread + 1] = NotADict
     THEN \* slide_data.get raises
          /\ Except("AttributeError")
          /\ UNCHANGED <<prs, nread>>
     ELSE LET layout == LayoutFor(env.program, LayoutMap(original_slide_count),
                                  arg[nread + 1])
          IN IF layout # <<>>
             THEN /\ prs' = AddSlide(prs, [of |-> "record", index |-> nread + 1,
                                           layout |-> layout[1]])
                  /\ nread' = nread + 1
                  /\ UNCHANGED <<pc, diagnostic, exit_code, raised>>
             ELSE \* add_slide(None) raises
                  /\ Except("AttributeError")
                  /\ UNCHANGED <<prs, nread>>
  /\ UNCHANGED <<todo, parser, slides, slide_log, balancer, input_has, objects,
                 call, original_slide_count, files, response, env, llm_calls>>

\* the loop "for i in range(original_slide_count)" after the last record
RemoveTemplateSlides ==
  /\ pc = "create"
  /\ nread = Len(arg)
  /\ prs' = RemoveSlides(prs, original_slide_count)
  /\ pc' = "removed"
  /\ UNCHANGED <<todo, nread, parser, slides, slide_log, balancer, input_has,
                 objects, call, original_slide_count, run>>

\* prs.save(str(output_file))
SavePresentation ==
  /\ pc = "removed"
  /\ files' = Write(files, "final_presentation.pptx",
                    [k \in DOMAIN prs |-> prs[k].of])
  /\ exit_code' = <<0>>
  /\ pc' = "saved"
  /\ UNCHANGED <<todo, nread, parser, slides, slide_log, balancer, input_has,
                 objects, call, deck, response, raised, env, diagnostic,
                 llm_calls>>

NextAssemble == LoadScript \/ CreateSlide \/ RemoveTemplateSlides \/ SavePresentation

SpecAssemble == InitAssemble /\ [][NextAssemble]_vars

(***************************************************************************)
(* The pipeline: main of main.py, with generate_presentation_script.  The  *)
(* response of the language model is a text over a few JSON tokens; a      *)
(* parsed value is held as its tokens without the whitespace.              *)
(***************************************************************************)
MaxResponse == 4

\* a JSON string
QA == "\"a\""

\* an empty JSON object
Dict == "{}"

\* a JSON object with the keys of a report
ReportObject == "{report}"

JsonTokens == {"[", "]", ",", QA, Dict, SP, "x"}

Responses == UNION {[1..n -> JsonTokens] : n \in 0..MaxResponse}

\* the JSON value of text that starts at token i: the index after it, or 0
\* where no value starts at i
RECURSIVE ParseValue(_, _)
RECURSIVE ParseElements(_, _)
ParseValue(text, i) ==
  IF i > Len(text) THEN 0
  ELSE IF text[i] \in {QA, Dict, ReportObject} THEN i + 1
  ELSE IF text[i] = "["
       THEN IF i + 1 <= Len(text) /\ text[i + 1] = "]" THEN i + 2
            ELSE ParseElements(text, i + 1)
  ELSE 0

\* the elements of a JSON array and its closing bracket, from token i
ParseElements(text, i) ==
  LET j == ParseValue(text, i)
  IN IF j = 0 \/ j > Len(text) THEN 0
     ELSE IF text[j] = "]" THEN j + 1
     ELSE IF text[j] = "," THEN ParseElements(text, j + 1)
     ELSE 0

\* json.loads(text): <<the value>>, or <<>> for JSONDecodeError
JsonLoads(text) ==
  LET tokens == SelectSeq(text, LAMBDA t : t # SP)
  IN IF tokens # <<>> /\ ParseValue(tokens, 1) = Len(tokens) + 1
     THEN <<tokens>>
     ELSE <<>>

\* (mutant) text.find(sub): the first index of sub in text
FindToken(text, sub) ==
  IF \E i \in DOMAIN text : text[i] = sub
  THEN CHOOSE i \in DOMAIN text :
         text[i] = sub /\ \A j \in 1..(i - 1) : text[j] # sub
  ELSE 0

\* text.rfind(sub): the last index of sub in text, here from 1, and 0 for -1
RfindToken(text, sub) ==
  IF \E i \in DOMAIN text : text[i] = sub
  THEN CHOOSE i \in DOMAIN text :
         text[i] = sub /\ \A j \in (i + 1)..Len(text) : text[j] # sub
  ELSE 0

\* "if isinstance(result, dict) and 'slides' in result ... elif
\* isinstance(result, list): slides = result, else: slides = [result]"
EnsureList(value) ==
  IF value[1] = "[" THEN value ELSE <<"[">> \o value \o <<"]">>

\* slide_data.get('slide_type', 'content') for the elements of the list
\* value, from token i on, at nesting depth
RECURSIVE SlideTypesFrom(_, _, _)
SlideTypesFrom(value, i, depth) ==
  IF i > Len(value) THEN <<>>
  ELSE IF value[i] = "["
       THEN (IF depth = 1 THEN <<NotADict>> ELSE <<>>)
              \o SlideTypesFrom(value, i + 1, depth + 1)
  ELSE IF value[i] = "]" THEN SlideTypesFrom(value, i + 1, depth - 1)
  ELSE IF value[i] = "," \/ depth # 1 THEN SlideTypesFrom(value, i + 1, depth)
  ELSE <<IF value[i] \in {Dict, ReportObject} THEN "content" ELSE NotADict>>
         \o SlideTypesFrom(value, i + 1, depth)

\* the files main and SlideScriptGenerator.__init__ read
RequiredFiles ==
  {"settings.yaml", "content_slide.json", "raw_data.txt", "template.pptx"}

RawText == <<"raw">>

InitMain ==
  /\ InitCommon
  /\ NoObjects
  /\ NoDeck
  /\ pc = "start"
  /\ todo = <<>>
  /\ content = EmptyContent
  /\ files = <<>>
  /\ response_content = <<>>
  /\ result = <<>>
  /\ raised = <<>>
  /\ \E exists \in SUBSET RequiredFiles :
       env = [program |-> "main", exists |-> exists]
  /\ exit_code = <<>>
  /\ diagnostic = FALSE
  /\ llm_calls = 0

\* generator = ScriptGenerator(): settings.yaml and the JSON templates are
\* opened
NewGenerator ==
  /\ pc = "start"
  /\ IF {"settings.yaml", "content_slide.json"} \subseteq env.exists
     THEN pc' = "input" /\ UNCHANGED <<raised, diagnostic, exit_code>>
     ELSE Except("FileNotFoundError")
  /\ UNCHANGED <<todo, nread, parser, slides, slide_log, balancer, input_has,
                 objects, call, deck, files, response, env, llm_calls>>

\* the input file is read and its text is written to represent.txt
SaveRawText ==
  /\ pc = "input"
  /\ IF "raw_data.txt" \in env.exists
     THEN /\ files' = Write(files, "represent.txt", RawText)
          /\ pc' = "generate"
          /\ UNCHANGED <<raised, diagnostic, exit_code>>
     ELSE /\ Except("FileNotFoundError")
          /\ UNCHANGED files
  /\ UNCHANGED <<todo, nread, parser, slides, slide_log, balancer, input_has,
                 objects, call, deck, response, env, llm_calls>>

\* self.client.chat.completions.create(...): the call returns a text or
\* raises
CallModel ==
  /\ pc = "generate"
  /\ llm_calls' = llm_calls + 1
  /\ \/ /\ response_content' \in Responses
        /\ pc' = "loads"
        /\ UNCHANGED <<raised, diagnostic, exit_code>>
     \/ /\ Except("APIError")
        /\ UNCHANGED response_content
  /\ UNCHANGED <<todo, nread, parser, slides, slide_log, balancer, input_has,
                 objects, call, deck, files, result, env>>

\* try: result = json.loads(response_content)
LoadResponse ==
  /\ pc = "loads"
  /\ IF JsonLoads(response_content) # <<>>
     THEN result' = JsonLoads(response_content) /\ pc' = "ensure"
     ELSE pc' = "fix" /\ UNCHANGED result
  /\ UNCHANGED <<todo, nread, parser, slides, slide_log, balancer, input_has,
                 objects, call, deck, files, response_content, raised, env,
                 exit_code, diagnostic, llm_calls>>

\* (mutant) the text is cut after its first ']'
FirstBracket(text) == FindToken(text, "]")

\* last_bracket = response_content.rfind(']')
LastBracket(text) == RfindToken(text, "]")

\* fixed_content = response_content[:last_bracket+1]
FixedContent(text) == SubSeq(text, 1, LastBracket(text))

\* the inner try: whether the response cut after its last ']' parses
Fixed(text) ==
  LastBracket(text) # 0 /\ JsonLoads(FixedContent(text)) # <<>>

\* except json.JSONDecodeError: the response is cut and parsed again, or else
\* written to debug_response.txt, and the error is raised
FixJson ==
  /\ pc = "fix"
  /\ IF Fixed(response_content)
     THEN /\ result' = JsonLoads(FixedContent(response_content))
          /\ pc' = "ensure"
          /\ UNCHANGED <<files, raised, diagnostic, exit_code>>
     ELSE /\ files' = Write(files, "debug_response.txt", response_content)
          /\ Except("JSONDecodeError")
          /\ UNCHANGED result
  /\ UNCHANGED <<todo, nread, parser, slides, slide_log, balancer, input_has,
                 objects, call, deck, response_content, env, llm_calls>>

\* the slides are returned and save_script writes them to slide_script.json
SaveScript ==
  /\ pc = "ensure"
  /\ files' = Write(files, "slide_script.json", EnsureList(result[1]))
  /\ pc' = "template"
  /\ UNCHANGED <<todo, nread, parser, slides, slide_log, balancer, input_has,
                 objects, call, deck, response, raised, env, exit_code,
                 diagnostic, llm_calls>>

\* prs = Presentation(str(template_path)) and slides_data = json.load(f)
LoadTemplate ==
  /\ pc = "template"
  /\ IF "template.pptx" \in env.exists
     THEN /\ \E count \in 0..MaxTemplateSlides :
               /\ prs' = [k \in 1..count |-> TemplateSlide(k)]
               /\ original_slide_count' = count
          /\ arg' = SlideTypesFrom(files["slide_script.json"], 1, 0)
          /\ pc' = "create"
          /\ UNCHANGED <<raised, diagnostic, exit_code>>
     ELSE /\ Except("PackageNotFoundError")
          /\ UNCHANGED <<deck, arg>>
  /\ UNCHANGED <<todo, nread, parser, slides, slide_log, balancer, input_has,
                 objects, out, files, response, env, llm_calls>>

NextMain ==
  \/ NewGenerator
  \/ SaveRawText
  \/ CallModel
  \/ LoadResponse
  \/ FixJson
  \/ SaveScript
  \/ LoadTemplate
  \/ CreateSlide
  \/ RemoveTemplateSlides
  \/ SavePresentation

SpecMain == InitMain /\ [][NextMain]_vars

(***************************************************************************)
(* The formatter: create_structured_format of content_formatter.py writes  *)
(* the structured text of parsed_data, which generate_from_structured_     *)
(* format then parses and pastes.  A text is the list of its lines.        *)
(***************************************************************************)
Digits == <<"0", "1", "2", "3", "4", "5", "6", "7", "8", "9">>

\* str(n) for a natural number
RECURSIVE Decimal(_)
Decimal(n) ==
  IF n < 10 THEN <<Digits[n + 1]>>
  ELSE Decimal(n \div 10) \o <<Digits[(n % 10) + 1]>>

KwCompletedJp == <<"JpCompleted">>
Quote == "\""

\* "SLIDE {n}: {name}"
SlideLine(n, name) == <<"SLIDE", SP>> \o Decimal(n) \o <<":", SP>> \o name

\* "- Type: {type}"
TypeLine(type) == <<"-", SP, "Type", ":", SP, type>>

\* "- Number: "{number}""
NumberLine(number) == <<"-", SP, "Number", ":", SP, Quote>> \o number \o <<Quote>>

\* "- Title: "{title}""
TitleLine(title) == <<"-", SP, "Title", ":", SP, Quote>> \o title \o <<Quote>>

\* "  {glyph} {text}"
GlyphLine(glyph, text) == <<SP, SP, glyph, SP>> \o text

\* "    ○ {text}"
SubPointLine(text) == <<SP, SP, SP, SP, Glyph1, SP>> \o text

\* text[:100] + "..." if len(text) > 100 else text
Brief(text) ==
  IF Len(text) > 100 THEN SubSeq(text, 1, 100) \o <<".", ".", ".">> ELSE text

\* the header, up to the task list of slide 4
FormatHead(parsed_data) ==
  <<<<"=== SLIDE STRUCTURE FORMAT ===">>,
    KwReportDate \o <<SP>> \o parsed_data.date_formatted,
    <<"Report Period", ":", SP>> \o parsed_data.report_time,
    <<"Total", SP, "Task", "s", ":", SP>> \o Decimal(Len(parsed_data.tasks)),
    <<>>,
    <<"=== SLIDE ORGANIZATION (FIXED ORDER) ===">>,
    <<>>,
    SlideLine(1, <<"Cover">>),
    TypeLine("cover"),
    KwContent \o <<SP, Quote>> \o parsed_data.date_formatted
      \o <<"JpReport", Quote>>,
    <<>>,
    SlideLine(2, <<"Agenda", SP, SP>>),
    TypeLine("agenda_slide"),
    KwContent \o <<SP, "Fixed agenda items">>,
    <<SP, SP, "1", ".", SP>> \o KwPurposeJp,
    <<SP, SP, "2", ".", SP>> \o KwCompletedJp \o <<SP, SP>>,
    <<SP, SP, "3", ".", SP>> \o KwFutureJp,
    <<>>,
    SlideLine(3, LDivider01),
    TypeLine("section_divider"),
    NumberLine(<<"0", "1">>),
    TitleLine(KwPurposeJp),
    <<>>,
    SlideLine(4, KwPurposeOverview),
    TypeLine("content"),
    TitleLine(<<"1", ".", SP>> \o KwPurposeJp),
    KwContent \o <<SP, "Task", SP, "list overview">>>>

\* the lines of slide 4 for one task: the title and up to two sub-points
FormatTaskListEntry(task) ==
  <<GlyphLine(Glyph0, task.title)>>
  \o (IF task.problem_description # <<>>
      THEN <<SubPointLine(Brief(task.problem_description))>> ELSE <<>>)
  \o (IF task.result # <<>>
      THEN <<SubPointLine(<<"Ketqua", ":", SP>> \o Brief(task.result))>>
      ELSE <<>>)

RECURSIVE FormatTaskList(_)
FormatTaskList(tasks) ==
  IF tasks = <<>> THEN <<>>
  ELSE FormatTaskListEntry(Head(tasks)) \o FormatTaskList(Tail(tasks))

\* slide 5
FormatDivider02 ==
  <<<<>>,
    SlideLine(5, LDivider02),
    TypeLine("section_divider") \o <<SP, SP>>,
    NumberLine(<<"0", "2">>),
    TitleLine(KwCompletedJp),
    <<>>>>

\* "  {bullet} {step['text']}" for every step
FormatSteps(solution_steps) ==
  [k \in DOMAIN solution_steps |->
     GlyphLine(IF solution_steps[k].level = 0 THEN Glyph0 ELSE Glyph1,
               solution_steps[k].text)]

\* "SLIDE {n}: Task {task_idx} {name}"
TaskSlideLine(n, task_idx, name) ==
  SlideLine(n, <<"Task", SP>> \o Decimal(task_idx) \o <<SP>> \o name)

\* the subtitle slide and the three content slides of task task_idx, from
\* slide number current_slide
FormatTask(task, task_idx, current_slide) ==
  <<TaskSlideLine(current_slide, task_idx, KwSubtitle),
    TypeLine("subtitle"),
    KwContent \o <<SP, Quote, "2", ".">> \o Decimal(task_idx) \o <<".", SP>>
      \o task.title \o <<Quote>>,
    <<>>,
    TaskSlideLine(current_slide + 1, task_idx, KwProblem),
    TypeLine("content"),
    TitleLine(<<"2", ".", SP>> \o KwCompletedJp),
    KwContent,
    GlyphLine(Glyph0, task.problem_description),
    <<>>,
    TaskSlideLine(current_slide + 2, task_idx, KwSolution),
    TypeLine("content"),
    TitleLine(<<"2", ".", SP>> \o KwCompletedJp),
    KwContent \o <<SP, "Solution steps">>>>
  \o FormatSteps(task.solution_steps)
  \o <<<<>>,
       TaskSlideLine(current_slide + 3, task_idx, KwResults),
       TypeLine("content"),
       TitleLine(<<"2", ".", SP>> \o KwCompletedJp),
       KwContent,
       GlyphLine(Glyph0, task.result),
       GlyphLine(Glyph0, task.analysis),
       GlyphLine(Glyph0, task.comment),
       <<>>>>

\* the loop "for task_idx, task in enumerate(parsed_data['tasks'], 1)", from
\* task task_idx on
RECURSIVE FormatTasks(_, _)
FormatTasks(tasks, task_idx) ==
  IF task_idx > Len(tasks) THEN <<>>
  ELSE FormatTask(tasks[task_idx], task_idx, 6 + 4 * (task_idx - 1))
       \o FormatTasks(tasks, task_idx + 1)

\* the final slides and the order verification, with current_slide after the
\* task loop
FormatTail(parsed_data, current_slide) ==
  <<SlideLine(current_slide, LDivider03),
    TypeLine("section_divider"),
    NumberLine(<<"0", "3">>) \o <<SP, SP>>,
    TitleLine(KwFutureJp),
    <<>>,
    SlideLine(current_slide + 1, KwFutureWork),
    TypeLine("content"),
    TitleLine(<<"3", ".", SP>> \o KwFutureJp),
    KwContent,
    GlyphLine(Glyph0, parsed_data.future_work),
    <<>>,
    <<"=== SLIDE ORDER VERIFICATION ===">>,
    <<"1", ".", SP, "Cover">>,
    <<"2", ".", SP, "Agenda", SP, SP>>,
    <<"3", ".", SP, "Section", SP, "0", "1", SP, "(", Quote, "0", "1", Quote,
      SP, "+", SP, Quote>> \o KwPurposeJp \o <<Quote, ")">>,
    <<"4", ".", SP, "Content", SP, "(", Quote>> \o KwPurposeJp
      \o <<Quote, SP, "task list only", ")">>,
    <<"5", ".", SP, "Section", SP, "0", "2", SP, "(", Quote, "0", "2", Quote,
      SP, "+", SP, Quote>> \o KwCompletedJp \o <<Quote, ")">>,
    <<"6", "-">> \o Decimal(current_slide - 1)
      \o <<".", SP, "Task", "s", SP, "(", "task = subtitle + 3 content slides",
           ")">>,
    Decimal(current_slide) \o <<".", SP, "Section", SP, "0", "3", SP, "(",
      Quote, "0", "3", Quote, SP, "+", SP, Quote>> \o KwFutureJp
      \o <<Quote, ")">>,
    Decimal(current_slide + 1) \o <<".", SP>> \o KwFutureWork
      \o <<SP, "content">>,
    <<>>,
    <<"=== END STRUCTURE ===">>,
    <<"Total Slides", ":", SP>> \o Decimal(current_slide + 1),
    <<"Expected Pattern", ":", SP, "Cover", SP, "Purpose", SP, "[", "Task", SP,
      "blocks", "]", SP, "Future">>,
    <<>>>>

\* create_structured_format(parsed_data): the lines of the text returned
CreateStructuredFormat(parsed_data) ==
  FormatHead(parsed_data)
  \o FormatTaskList(parsed_data.tasks)
  \o FormatDivider02
  \o FormatTasks(parsed_data.tasks, 1)
  \o FormatTail(parsed_data, 6 + 4 * Len(parsed_data.tasks))

\* the number the text declares on its 'Total Slides' line
DeclaredTotalSlides(parsed_data) == 6 + 4 * Len(parsed_data.tasks) + 1

\* solution steps: level and text
Step(level, text) == [level |-> level, text |-> text]

StepLists ==
  {<<>>,
   <<Step(0, <<"s">>)>>,
   <<Step(0, <<"s">>), Step(1, <<"u">>)>>,
   <<Step(0, <<"s">>), Step(1, <<"u">>), Step(1, <<"v">>), Step(1, <<"w">>)>>,
   <<Step(1, <<"u">>), Step(0, <<"s">>)>>}

\* the tasks a report is made of: text fields without a glyph or a keyword
ReportTasks ==
  {[title |-> title, problem_description |-> <<"p">>, solution_steps |-> steps,
    result |-> outcome, analysis |-> <<"n">>, comment |-> <<"m">>] :
     title \in {<<"c", "]", SP, "e">>}, steps \in StepLists,
     outcome \in {<<"r">>, <<>>}}

Reports ==
  {[date_formatted |-> <<"d">>, report_time |-> <<"w">>, tasks |-> tasks,
    future_work |-> <<"f">>] :
     tasks \in UNION {[1..n -> ReportTasks] : n \in 0..MaxTasks}}

InitFormat ==
  /\ InitCommon
  /\ NoObjects
  /\ NoDeck
  /\ NoRun
  /\ pc = "format"
  /\ todo = <<>>
  /\ content = EmptyContent

\* structured_content = self.create_structured_format(parsed_data), then
\* generate_from_structured_format reads the text: arg is parsed_data
CreateFormat ==
  /\ pc = "format"
  /\ \E parsed_data \in Reports :
       /\ arg' = parsed_data
       /\ todo' = CreateStructuredFormat(parsed_data)
       /\ content' = [EmptyContent EXCEPT !.detected_info =
                        DetectContentSections(CreateStructuredFormat(parsed_data))]
  /\ pc' = "parse"
  /\ UNCHANGED <<deck, run, nread, current_task, current_content_type,
                 current_content_buffer, slides, slide_log, balancer,
                 input_has, objects, out>>

NextFormat == CreateFormat \/ ReadScript \/ EndOfInput \/ Paste

SpecFormat == InitFormat /\ [][NextFormat]_vars

(***************************************************************************)
(* The stages before the generator, each a program of its own:             *)
(* ContentExtractor.process_file, then ContentFormatter.run on the file    *)
(* represent.txt that the extractor left.                                  *)
(***************************************************************************)
\* the text the model returns for the raw content
RepresentText == <<"represent">>

\* f"Error processing content: {str(e)}"
ErrorText(e) == <<"Error processing content", ":", SP, e>>

\* the report that ReportObject is the JSON text of
SampleReport ==
  [date_formatted |-> <<"d">>, report_time |-> <<"w">>,
   tasks |-> <<[title |-> <<"c", "]", SP, "e">>, problem_description |-> <<"p">>,
                solution_steps |-> <<Step(0, <<"s">>), Step(1, <<"u">>)>>,
                result |-> <<"r">>, analysis |-> <<"n">>, comment |-> <<"m">>]>>,
   future_work |-> <<"f">>]

\* "Fallback to empty structure"
FallbackReport ==
  [date_formatted |-> <<"today">>, report_time |-> <<"N/A">>, tasks |-> <<>>,
   future_work |-> <<>>]

FallbackObject == "{fallback}"

\* parsed_data for the value held in result
ReportOf(value) == IF value = <<ReportObject>> THEN SampleReport ELSE FallbackReport

FormatterResponses == Responses \cup {<<ReportObject>>, <<ReportObject, SP>>}

\* an exception of kind leaves the program: the traceback is printed and the
\* exit status is 1
Uncaught(kind) ==
  /\ raised' = <<kind>>
  /\ diagnostic' = TRUE
  /\ exit_code' = <<1>>
  /\ pc' = "failed"

InitStages ==
  /\ InitCommon
  /\ NoObjects
  /\ NoDeck
  /\ pc = "extract"
  /\ todo = <<>>
  /\ content = EmptyContent
  /\ files = <<>>
  /\ response_content = <<>>
  /\ result = <<>>
  /\ raised = <<>>
  /\ \E extraction \in {"text", "APIError"} :
       env = [program |-> "content_extractor", extraction |-> extraction]
  /\ exit_code = <<>>
  /\ diagnostic = FALSE
  /\ llm_calls = 0

\* extract_and_reformat(raw_content): the text of the model, or the error
\* text when the call raised
ExtractAndReformat(extraction) ==
  IF extraction = "text" THEN RepresentText ELSE ErrorText(extraction)

\* ContentExtractor.process_file: out is formatted_content
ProcessFile ==
  /\ pc = "extract"
  /\ llm_calls' = llm_calls + 1
  /\ out' = ExtractAndReformat(env.extraction)
  /\ files' = Write(files, "represent.txt", ExtractAndReformat(env.extraction))
  /\ diagnostic' = (env.extraction # "text")
  /\ pc' = "parse_represent"
  /\ UNCHANGED <<todo, nread, parser, slides, slide_log, balancer, input_has,
                 objects, arg, deck, response, raised, env, exit_code>>

\* ContentFormatter.parse_represent_file: the call of the model is outside
\* the try, json.loads inside it
ParseRepresentFile ==
  /\ pc = "parse_represent"
  /\ llm_calls' = llm_calls + 1
  /\ \/ /\ Uncaught("APIError")
        /\ UNCHANGED response
     \/ \E text \in FormatterResponses :
          /\ response_content' = text
          /\ IF JsonLoads(text) = <<>>
             THEN /\ result' = <<<<FallbackObject>>>>
                  /\ diagnostic' = TRUE
                  /\ pc' = "structure"
                  /\ UNCHANGED <<raised, exit_code>>
             ELSE IF JsonLoads(text)[1] \in {<<Dict>>, <<ReportObject>>}
             THEN /\ result' = JsonLoads(text)
                  /\ pc' = "structure"
                  /\ UNCHANGED <<raised, exit_code, diagnostic>>
             ELSE \* parsed_data.get of a list or a str
                  /\ Uncaught("AttributeError")
                  /\ UNCHANGED result
  /\ UNCHANGED <<todo, nread, parser, slides, slide_log, balancer, input_has,
                 objects, call, deck, files, env>>

\* ContentFormatter.run after parse_represent_file: the text is created and
\* written to structured_format.txt
RunFormatter ==
  /\ pc = "structure"
  /\ IF result[1] = <<Dict>>
     THEN \* parsed_data['tasks']
          /\ Uncaught("KeyError")
          /\ UNCHANGED <<files, out>>
     ELSE /\ files' = Write(files, "structured_format.txt",
                            Join(NL, CreateStructuredFormat(ReportOf(result[1]))))
          /\ out' = Join(NL, CreateStructuredFormat(ReportOf(result[1])))
          /\ exit_code' = <<0>>
          /\ pc' = "formatted"
          /\ UNCHANGED <<raised, diagnostic>>
  /\ UNCHANGED <<todo, nread, parser, slides, slide_log, balancer, input_has,
                 objects, arg, deck, response, env, llm_calls>>

NextStages == ProcessFile \/ ParseRepresentFile \/ RunFormatter

SpecStages == InitStages /\ [][NextStages]_vars

(***************************************************************************)
(* Properties.                                                             *)
(***************************************************************************)
BufferingStates == {"problem", "solution", "result"}

\* the field of task that buffers of content_type are stored in
FieldOf(task, content_type) ==
  IF content_type = "problem" THEN task.problem
  ELSE IF content_type = "solution" THEN task.solution
  ELSE task.result

\* the current task after a step: the task the step appended to tasks, or else
\* current_task
TaskAfterStep ==
  IF Len(content'.tasks) > Len(content.tasks)
  THEN content'.tasks[Len(content'.tasks)]
  ELSE current_task'[1]

\* a step that leaves a buffering state with bullet lines buffered for a task:
\* a marker line (the buffer is emptied) or the end of the input
LeavesBufferingState ==
  /\ pc = "parse"
  /\ current_task # None
  /\ current_content_type \in BufferingStates
  /\ current_content_buffer # <<>>
  /\ pc' = "paste" \/ current_content_buffer' = <<>>

\* C1: whenever the parser leaves the PROBLEM, SOLUTION or RESULT state, on a
\* marker line or at the end of the input, the bullet lines buffered in that
\* state are stored, joined in input order, in the field of the current task:
\* no buffered bullet line of a task is discarded.
C1_BufferStoredOnLeave ==
  [][LeavesBufferingState
       => FieldOf(TaskAfterStep, current_content_type)
            = Join(NL, current_content_buffer)]_vars

\* C2: after the parse, the number of entries of tasks equals the number of
\* input lines that contain both 'Task' and 'Subtitle', which is the count
\* _detect_content_sections stores in detected_info.tasks.
C2_TasksMatchDetected ==
  pc \in {"paste", "done"} => Len(content.tasks) = content.detected_info.tasks

\* a slide was appended by the statement kind for task number task
HasSlide(kind, task) ==
  \E k \in DOMAIN slide_log : slide_log[k].kind = kind /\ slide_log[k].task = task

\* C3: every non-empty text field of the content tree yields at least one
\* content slide: each task's non-empty problem, solution and result, and a
\* non-empty future_work.
C3_NonEmptyFieldHasSlide ==
  pc = "done" =>
    /\ \A i \in DOMAIN content.tasks :
         /\ content.tasks[i].problem # <<>> => HasSlide("problem", i)
         /\ content.tasks[i].solution # <<>> => HasSlide("solution", i)
         /\ content.tasks[i].result # <<>> => HasSlide("result", i)
    /\ content.future_work # <<>> => HasSlide("future", 0)

\* C9: whenever the input contains a Section Divider 03 marker line, the
\* section divider '03' slide is emitted; if in addition the future-work
\* section holds no bullet line, no future-work content slide is emitted.
C9_Divider03Emitted ==
  pc = "done" /\ "divider03" \in input_has =>
    /\ HasSlide("sec03", 0)
    /\ "future_bullet" \notin input_has => ~HasSlide("future", 0)

ContentKinds == {"overview", "problem", "solution", "result", "future"}

\* the content text handed to _paste_text_to_slide for the slide logged as o
SuppliedContent(o) ==
  IF o.kind = "overview" THEN Join(NL, content.task_list)
  ELSE IF o.kind = "problem" THEN content.tasks[o.task].problem
  ELSE IF o.kind = "solution"
  THEN BalanceContentDistribution(content.tasks[o.task].solution,
                                  SolutionMaxSubPoints)[o.chunk]
  ELSE IF o.kind = "result" THEN content.tasks[o.task].result
  ELSE content.future_work

\* the non-blank lines of text, stripped
NonBlankLines(text) ==
  LET lines == Split(NL, text)
  IN SelectSeq([k \in DOMAIN lines |-> Strip(lines[k])], LAMBDA l : l # <<>>)

\* the paragraphs of the body shape (position x = 626250) of slide
BodyParagraphs(slide) ==
  LET k == CHOOSE k \in DOMAIN slide.shapes : slide.shapes[k].x = XContentBody
  IN slide.shapes[k].paragraphs

\* C10: for every generated content slide, whatever its content text, the
\* body shape holds exactly one paragraph per non-blank line of the content
\* supplied for that slide and none of the template's original body paragraphs.
C10_BodyReplaced ==
  pc = "done" =>
    \A k \in DOMAIN slides :
      slide_log[k].kind \in ContentKinds =>
        LET body == BodyParagraphs(slides[k])
        IN /\ Len(body) = Len(NonBlankLines(SuppliedContent(slide_log[k])))
           /\ \A j \in DOMAIN body :
                \A t \in DOMAIN TemplateBody : body[j] # TemplateBody[t]

(***************************************************************************)
(* Properties of the balancer, checked under SpecBalance.                  *)
(***************************************************************************)
\* the stripped non-blank lines of the text handed to the balancer
BalInput == NonBlankLines(bal_content)

\* the lines of chunk number j
ChunkLines(j) == Split(NL, bal_chunks[j])

\* the number of level-1 lines of chunk number j: the lines the balancer
\* counts as sub points
SubPointsOf(j) ==
  Cardinality({k \in DOMAIN ChunkLines(j) : IsSubPoint(ChunkLines(j)[k])})

\* C4 as claimed: each chunk that contains at least one level-1 line has a
\* level-0 line (starting with the level-0 glyph and a blank) as its first line.
C4_ChunkStartsWithMainPoint ==
  pc = "balanced" =>
    \A j \in DOMAIN bal_chunks :
      SubPointsOf(j) >= 1 => IsMainPoint(ChunkLines(j)[1])

\* every level-1 line of the input comes after some level-0 line
SubPointsFollowMainPoint ==
  \A k \in DOMAIN BalInput :
    IsSubPoint(BalInput[k]) => \E h \in 1..(k - 1) : IsMainPoint(BalInput[h])

\* C4 as amended: for every input text in which every level-1 line comes after
\* some level-0 line, and every max_sub_points, each chunk that contains at
\* least one level-1 line has a level-0 line as its first line.
C4_ChunkStartsWithMainPointAmended ==
  pc = "balanced" /\ SubPointsFollowMainPoint =>
    \A j \in DOMAIN bal_chunks :
      SubPointsOf(j) >= 1 => IsMainPoint(ChunkLines(j)[1])

\* a split happened: the second chunk repeats the main point of the first
C4_Witness ==
  /\ pc = "balanced"
  /\ SubPointsFollowMainPoint
  /\ Len(bal_chunks) >= 2
  /\ SubPointsOf(2) >= 1
  /\ ChunkLines(2)[1] = ChunkLines(1)[1]
  /\ IsMainPoint(ChunkLines(2)[1])

\* C5 as claimed: for every max_sub_points >= 0, no chunk contains more than
\* max_sub_points level-1 lines.
C5_SubPointsBounded ==
  pc = "balanced" =>
    \A j \in DOMAIN bal_chunks : SubPointsOf(j) <= bal_max

\* C5 as amended: for every max_sub_points >= 1, no chunk contains more than
\* max_sub_points level-1 lines.
C5_SubPointsBoundedAmended ==
  pc = "balanced" /\ bal_max >= 1 =>
    \A j \in DOMAIN bal_chunks : SubPointsOf(j) <= bal_max

\* a full chunk was closed and another opened
C5_Witness ==
  /\ pc = "balanced"
  /\ bal_max >= 1
  /\ Len(bal_chunks) >= 2
  /\ SubPointsOf(1) = bal_max
  /\ SubPointsOf(2) >= 1

\* the text is one level-0 line followed by n >= 1 level-1 lines and nothing else
OneMainPointThenSubPoints ==
  LET lines == Split(NL, bal_content)
  IN /\ Len(lines) >= 2
     /\ IsMainPoint(Strip(lines[1]))
     /\ \A k \in 2..Len(lines) : IsSubPoint(Strip(lines[k]))

\* C6: for an input of one level-0 line followed by n >= 1 level-1 lines and
\* max_sub_points = m >= 1, the balancer returns exactly ceil(n/m) chunks, and
\* every chunk after the first begins with a copy of that level-0 line.
C6_ChunkCount ==
  pc = "balanced" /\ bal_max >= 1 /\ OneMainPointThenSubPoints =>
    LET n == Len(Split(NL, bal_content)) - 1
    IN /\ Len(bal_chunks) = (n + bal_max - 1) \div bal_max
       /\ \A j \in 2..Len(bal_chunks) : ChunkLines(j)[1] = BalInput[1]

\* n = 5, m = 3: two chunks
C6_Witness ==
  /\ pc = "balanced"
  /\ bal_max = 3
  /\ OneMainPointThenSubPoints
  /\ Len(Split(NL, bal_content)) = 6
  /\ Len(bal_chunks) = 2

(***************************************************************************)
(* Properties of the slide sequence, checked under SpecScenario.           *)
(***************************************************************************)
\* the place of an append statement in _paste_content_to_templates: the
\* part of the method, the task, the statement within the task loop, the chunk
OriginKey(o) ==
  IF o.kind = "cover" THEN <<0, 1, 0, 0>>
  ELSE IF o.kind = "agenda" THEN <<0, 2, 0, 0>>
  ELSE IF o.kind = "sec01" THEN <<0, 3, 0, 0>>
  ELSE IF o.kind = "overview" THEN <<0, 4, 0, 0>>
  ELSE IF o.kind = "sec02" THEN <<0, 5, 0, 0>>
  ELSE IF o.kind = "subtitle" THEN <<1, o.task, 1, 0>>
  ELSE IF o.kind = "problem" THEN <<1, o.task, 2, 0>>
  ELSE IF o.kind = "solution" THEN <<1, o.task, 3, o.chunk>>
  ELSE IF o.kind = "result" THEN <<1, o.task, 4, 0>>
  ELSE IF o.kind = "sec03" THEN <<2, 0, 0, 0>>
  ELSE <<3, 0, 0, 0>>

\* lexicographic order of two keys
KeyBefore(a, b) ==
  \E k \in 1..4 : a[k] < b[k] /\ \A h \in 1..(k - 1) : a[h] = b[h]

\* the text of the number shape of a section divider slide
DividerNumber(slide) ==
  LET k == CHOOSE k \in DOMAIN slide.shapes : slide.shapes[k].x = XDividerNumber
  IN slide.shapes[k].paragraphs[1].runs[1].text

\* slide number k is what its place in the sequence says it is
SlideIsOfKind(k) ==
  LET o == slide_log[k]
      slide == slides[k]
  IN IF o.kind = "cover" THEN slide.slide_type = "cover"
     ELSE IF o.kind = "agenda" THEN slide.slide_type = "agenda_slide"
     ELSE IF o.kind = "sec01"
     THEN slide.slide_type = "section_divider" /\ DividerNumber(slide) = <<"0", "1">>
     ELSE IF o.kind = "sec02"
     THEN slide.slide_type = "section_divider" /\ DividerNumber(slide) = <<"0", "2">>
     ELSE IF o.kind = "sec03"
     THEN slide.slide_type = "section_divider" /\ DividerNumber(slide) = <<"0", "3">>
     ELSE IF o.kind = "subtitle"
     THEN slide = PasteTextToSlide(SlideTemplates.subtitle,
                                   content.tasks[o.task].title, <<>>, "subtitle")
     ELSE /\ slide.slide_type = "content"
          /\ SuppliedContent(o) # <<>>
               => BodyParagraphs(slide) = ParseBulletContent(SuppliedContent(o))

\* C7: the slides are emitted in this order: cover, agenda, section divider
\* '01', overview content, section divider '02', then for each task in tasks
\* order its subtitle slide followed by its problem slide, its solution chunk
\* slides in chunk order and its result slide, then section divider '03' and
\* the future-work content slide last; no slide of task k precedes a slide of
\* a task j < k.
C7_SlideOrder ==
  pc = "done" =>
    /\ Len(slides) >= 5
    /\ [k \in 1..5 |-> slide_log[k].kind]
         = <<"cover", "agenda", "sec01", "overview", "sec02">>
    /\ \A k \in 1..(Len(slide_log) - 1) :
         KeyBefore(OriginKey(slide_log[k]), OriginKey(slide_log[k + 1]))
    /\ \A k \in DOMAIN slides : SlideIsOfKind(k)
    /\ \A i \in DOMAIN content.tasks : HasSlide("subtitle", i)
    /\ \A k \in DOMAIN slide_log :
         slide_log[k].kind \in {"subtitle", "problem", "solution", "result"}
           => slide_log[k].task \in DOMAIN content.tasks

\* two tasks, the first with two solution chunks, and both final slides
C7_Witness ==
  /\ pc = "done"
  /\ Len(content.tasks) = 2
  /\ \E k \in DOMAIN slide_log :
       /\ slide_log[k] = [kind |-> "solution", task |-> 1, chunk |-> 2]
       /\ k + 1 \in DOMAIN slide_log
       /\ slide_log[k + 1].kind = "result"
  /\ HasSlide("problem", 2)
  /\ HasSlide("sec03", 0)
  /\ slide_log[Len(slide_log)].kind = "future"

\* the solution text is one level-0 line with at most 3 level-1 lines
SmallSolution(text) ==
  LET lines == NonBlankLines(text)
  IN /\ Len(lines) \in 1..4
     /\ IsMainPoint(lines[1])
     /\ \A k \in 2..Len(lines) : IsSubPoint(lines[k])

\* C8: for a structured text with N tasks, each with a non-empty problem, a
\* non-empty result and a solution of one level-0 line with at most 3 level-1
\* lines, and with no future-work section marker, parsing then template
\* filling produces exactly 5 + 4N slides.
C8_SlideCount ==
  (/\ pc = "done"
   /\ "divider03" \notin input_has
   /\ "future_marker" \notin input_has
   /\ \A i \in DOMAIN content.tasks :
        /\ content.tasks[i].problem # <<>>
        /\ content.tasks[i].result # <<>>
        /\ SmallSolution(content.tasks[i].solution))
    => Len(slides) = 5 + 4 * content.detected_info.tasks

\* two tasks, one of them with 3 level-1 lines: 13 slides
C8_Witness ==
  /\ pc = "done"
  /\ "divider03" \notin input_has
  /\ "future_marker" \notin input_has
  /\ content.detected_info.tasks = 2
  /\ Len(content.tasks) = 2
  /\ \A i \in DOMAIN content.tasks :
       /\ content.tasks[i].problem # <<>>
       /\ content.tasks[i].result # <<>>
       /\ SmallSolution(content.tasks[i].solution)
  /\ Len(NonBlankLines(content.tasks[2].solution)) = 4
  /\ Len(slides) = 13

(***************************************************************************)
(* Properties of the objects, checked under SpecScenario.                  *)
(***************************************************************************)
\* the addresses of the objects reached from the slide at address a
CellsOf(h, a) ==
  LET shapes == {h[a].shapes[k] : k \in DOMAIN h[a].shapes}
      paragraphs == UNION {{h[s].paragraphs[k] : k \in DOMAIN h[s].paragraphs} :
                             s \in shapes}
      runs == UNION {{h[p].runs[k] : k \in DOMAIN h[p].runs} : p \in paragraphs}
  IN {a} \cup shapes \cup paragraphs \cup runs

\* the addresses of the objects of the five templates
TemplateCells ==
  UNION {CellsOf(heap, slide_templates[key]) : key \in DOMAIN slide_templates}

\* C11: _paste_content_to_templates never changes the loaded templates: the
\* five entries of slide_templates and every object reached from them are
\* after the call what they were when loaded; every generated slide record
\* is an independent deep copy: it shares no object with another record or
\* with a template, so that a change of one record reaches no other.
C11_TemplatesImmutable ==
  pc = "done" =>
    /\ slide_templates = LoadTemplates.templates
    /\ \A a \in DOMAIN LoadTemplates.heap : heap[a] = LoadTemplates.heap[a]
    /\ \A key \in DOMAIN slide_templates :
         SlideAt(heap, slide_templates[key]) = SlideTemplates[key]
    /\ \A k \in DOMAIN slide_refs :
         /\ CellsOf(heap, slide_refs[k]) \cap TemplateCells = {}
         /\ \A j \in DOMAIN slide_refs :
              j # k => CellsOf(heap, slide_refs[j])
                         \cap CellsOf(heap, slide_refs[k]) = {}
         /\ SlideAt(heap, slide_refs[k]) = slides[k]

\* a deck with two tasks was generated: several copies of the content and
\* subtitle templates were pasted into, with different texts
C11_Witness ==
  /\ pc = "done"
  /\ Len(slide_refs) >= 13
  /\ \E j, k \in DOMAIN slide_refs :
       /\ slide_log[j].kind = "problem"
       /\ slide_log[k].kind = "solution"
       /\ SlideAt(heap, slide_refs[j]) # SlideAt(heap, slide_refs[k])
       /\ SlideAt(heap, slide_refs[j]) # SlideTemplates.content

(***************************************************************************)
(* Properties of the parser's reading of one line, checked under Spec.     *)
(***************************************************************************)
\* the parser's state after the loop body has read raw in the current state
AfterReading(raw) ==
  ParseLine(content, current_task, current_content_type, current_content_buffer,
            raw)

\* the state a marker keyword held by line leads to, "none" if line holds none
MarkerState(line) ==
  IF In(KwTask, line) /\ In(KwSubtitle, line) THEN "subtitle"
  ELSE IF In(KwProblem, line) THEN "problem"
  ELSE IF In(KwSolution, line) THEN "solution"
  ELSE IF In(KwResults, line) THEN "result"
  ELSE IF In(KwFutureWork, line) THEN "future_work"
  ELSE "none"

\* the line is kept as content by the step to p: in task_list, in the
\* buffer or as future_work
StoredAsContent(line, p) ==
  \/ p.content.task_list # content.task_list
  \/ p.current_content_buffer = Append(current_content_buffer, line)
  \/ p.content.future_work # content.future_work

\* C12: any line containing a marker keyword ('Future Work', 'Problem
\* Description', 'Solution Process', 'Results & Analysis', or both 'Task' and
\* 'Subtitle') causes that marker's state transition in every parser state,
\* also when it is a bullet line read in PURPOSE_TASKS, PROBLEM, SOLUTION or
\* RESULT; such a line is never stored as content.
C12_MarkerAlwaysWins ==
  pc = "parse" =>
    \A raw \in LineSet :
      MarkerState(Strip(raw)) # "none" =>
        /\ AfterReading(raw).current_content_type = MarkerState(Strip(raw))
        /\ ~StoredAsContent(Strip(raw), AfterReading(raw))

(***************************************************************************)
(* Properties of the classification of one line, checked under SpecLine.   *)
(***************************************************************************)
\* the line holds both the level-0 and the level-1 glyph
HasBothGlyphs(line) == In(<<Glyph0>>, line) /\ In(<<Glyph1>>, line)

\* the line was classified level 1 by the call made
ClassifiedLevel1 ==
  /\ pc = "paragraphs" =>
       /\ Len(out) = 1
       /\ out[1].level = 1
       /\ out[1].bullet.char = Glyph1
  /\ pc = "counted" =>
       /\ out.sub_point_count = 1
       /\ out.current_main_point = None

\* the line was classified level 0 by the call made
ClassifiedLevel0 ==
  /\ pc = "paragraphs" =>
       /\ Len(out) = 1
       /\ out[1].level = 0
       /\ out[1].bullet.char = Glyph0
  /\ pc = "counted" =>
       /\ out.sub_point_count = 0
       /\ out.current_main_point = <<Strip(arg)>>

AfterFirstColon(line) == SubSeq(line, Find(<<":">>, line) + 2, Len(line))

\* C14: date is set by the first line carrying the date marker
\* 'Report Date:' to the trimmed text after that line's first colon; every
\* later date-marker line leaves date unchanged.
C14_DateSetOnce ==
  pc = "parse" =>
    \A raw \in LineSet :
      In(KwReportDate, Strip(raw)) =>
        AfterReading(raw).content.date =
          IF "date_marker" \in input_has
          THEN content.date
          ELSE Strip(AfterFirstColon(Strip(raw)))

\* the line holds a bullet glyph and no marker keyword
PlainBullet(line) ==
  /\ In(<<Glyph0>>, line) \/ In(<<Glyph1>>, line)
  /\ ~In(KwReportDate, line)
  /\ ~(In(KwPurposeOverview, line) \/ In(KwPurposeJp, line))
  /\ ~(In(KwFutureWork, line) \/ In(KwFutureJp, line))
  /\ MarkerState(line) = "none"

\* C15: in the FUTURE_WORK state, future_work is set to the first level-0
\* bullet line met; every later bullet line met in that state leaves
\* future_work unchanged.
C15_FutureWorkFirstBullet ==
  pc = "parse" /\ current_content_type = "future_work" =>
    \A raw \in LineSet :
      PlainBullet(Strip(raw)) =>
        AfterReading(raw).content.future_work =
          IF "future_main" \in input_has THEN content.future_work
          ELSE IF In(<<Glyph0>>, Strip(raw)) THEN Strip(raw)
          ELSE content.future_work

\* s without its surrounding double quotes, if it has both
Unquoted(s) ==
  IF Len(s) >= 2 /\ s[1] = "\"" /\ s[Len(s)] = "\""
  THEN SubSeq(s, 2, Len(s) - 1)
  ELSE s

\* C16: in the SUBTITLE state, the current task's title is set by the first
\* line beginning with '- Content:' (surrounding double quotes removed);
\* later '- Content:' lines met in the same SUBTITLE state do not change the
\* title.  (The title is empty when SUBTITLE is entered, and the '- Content:'
\* lines of LineSet carry a title that is not.)
C16_TitleSetOnce ==
  pc = "parse" /\ current_content_type = "subtitle" /\ current_task # None =>
    \A raw \in {LContent, LContent2} :
      AfterReading(raw).current_task[1].title =
        IF current_task[1].title # <<>>
        THEN current_task[1].title
        ELSE Unquoted(Strip(SubSeq(Strip(raw), Len(KwContent) + 1, Len(Strip(raw)))))

\* the line holds a bullet glyph and neither the date nor a purpose marker
PurposeBullet(line) ==
  /\ In(<<Glyph0>>, line) \/ In(<<Glyph1>>, line)
  /\ ~In(KwReportDate, line)
  /\ ~(In(KwPurposeOverview, line) \/ In(KwPurposeJp, line))

\* C17 as claimed: in the PURPOSE_TASKS state, every line containing a bullet
\* glyph is appended to task_list, in input order and with its glyph kept,
\* and changes no field of any task.
C17_BulletsToTaskList ==
  pc = "parse" /\ current_content_type = "purpose_tasks" =>
    \A raw \in LineSet :
      PurposeBullet(Strip(raw)) =>
        /\ AfterReading(raw).content.task_list
             = Append(content.task_list, Strip(raw))
        /\ AfterReading(raw).content.tasks = content.tasks
        /\ AfterReading(raw).current_task = current_task

\* C17 as amended: in the PURPOSE_TASKS state, every line containing the
\* level-0 glyph is appended to task_list; a line containing the level-1
\* glyph and not the level-0 glyph is appended if task_list is not empty and
\* is dropped if it is; lines are appended in input order, trimmed, with
\* their glyph kept, and no such line changes a field of any task.
C17_BulletsToTaskListAmended ==
  pc = "parse" /\ current_content_type = "purpose_tasks" =>
    \A raw \in LineSet :
      PurposeBullet(Strip(raw)) =>
        /\ AfterReading(raw).content.task_list
             = IF In(<<Glyph0>>, Strip(raw)) \/ content.task_list # <<>>
               THEN Append(content.task_list, Strip(raw))
               ELSE content.task_list
        /\ AfterReading(raw).content.tasks = content.tasks
        /\ AfterReading(raw).current_task = current_task

\* a level-1 line was dropped, then a level-0 line and a level-1 line were
\* appended, while a task was open
C17_Witness ==
  /\ pc = "parse"
  /\ current_content_type = "purpose_tasks"
  /\ current_task # None
  /\ nread = 5
  /\ content.task_list = <<Strip(LMain), Strip(LSub)>>

(***************************************************************************)
(* Properties of the list of tasks, checked under SpecScenario.            *)
(***************************************************************************)
\* the line the next iteration reads holds the Task Subtitle marker
AtTaskSubtitle ==
  /\ todo # <<>>
  /\ In(KwTask, Strip(Head(todo)))
  /\ In(KwSubtitle, Strip(Head(todo)))

\* task is the current task as it stands when it is closed: its title and
\* the fields not being buffered are those of current_task, the field being
\* buffered is the joined buffer
ClosedCurrentTask(task) ==
  /\ task.title = current_task[1].title
  /\ \A field \in BufferingStates :
       FieldOf(task, field) =
         IF field = current_content_type /\ current_content_buffer # <<>>
         THEN Join(NL, current_content_buffer)
         ELSE FieldOf(current_task[1], field)

\* C18: tasks lists the tasks in the order of their Task Subtitle markers,
\* each task exactly once: a step appends the current task, as the last
\* element, exactly when the next Task Subtitle marker or the end of the
\* input is reached, and at the end there are as many tasks as markers.
\* Once a task has been appended none of its fields changes: every step
\* leaves the tasks already in the list as they are.
C18_TasksInOrderAndFrozen ==
  [][/\ Len(content'.tasks) >= Len(content.tasks)
     /\ SubSeq(content'.tasks, 1, Len(content.tasks)) = content.tasks
     /\ Len(content'.tasks) <= Len(content.tasks) + 1
     /\ Len(content'.tasks) = Len(content.tasks) + 1
          <=> /\ pc = "parse"
              /\ current_task # None
              /\ AtTaskSubtitle \/ pc' = "paste"
     /\ Len(content'.tasks) = Len(content.tasks) + 1
          => ClosedCurrentTask(content'.tasks[Len(content'.tasks)])
     /\ pc' = "paste" => Len(content'.tasks) = content.detected_info.tasks]_vars

\* two tasks that differ were parsed and are listed in the order of the input
C18_Witness ==
  /\ pc = "done"
  /\ Len(content.tasks) = 2
  /\ Len(NonBlankLines(content.tasks[1].solution)) = 1
  /\ Len(NonBlankLines(content.tasks[2].solution)) = 3
  /\ content.tasks[1].result # <<>>
  /\ content.tasks[2].result # <<>>

(***************************************************************************)
(* Properties of the subtitle slide, checked under SpecTitle.              *)
(***************************************************************************)
\* the text of the first run of paragraph k of the first shape of slide
SubtitleText(slide, k) == slide.shapes[1].paragraphs[k].runs[1].text

\* C19: for every task title of the form 'N.M. CODE] Description' the
\* subtitle slide's first paragraph text is 'N.M. ' followed by the text up
\* to and including the closing bracket and its second paragraph text is the
\* remaining description; for a title without the closing bracket the whole
\* title is the first paragraph's text and the second paragraph keeps the
\* template's text.
C19_SubtitleSplit ==
  pc = "subtitle" =>
    /\ \A number \in NumberForms, code \in CodeForms,
          description \in DescriptionForms :
         arg = number \o code \o description =>
           /\ SubtitleText(out, 1) = number \o code
           /\ SubtitleText(out, 2) = Strip(description)
    /\ ~In(<<RB>>, arg) =>
         /\ SubtitleText(out, 1) = arg
         /\ SubtitleText(out, 2) = SubtitleText(SlideTemplates.subtitle, 2)

(***************************************************************************)
(* Reading a generated content slide back, checked under Spec.             *)
(***************************************************************************)
\* the text of the first run of the title slot (position x = 584875) of slide
TitleSlotText(slide) ==
  LET k == CHOOSE k \in DOMAIN slide.shapes : slide.shapes[k].x = XContentTitle
  IN slide.shapes[k].paragraphs[1].runs[1].text

\* the body paragraphs of slide read in order as bullet char + ' ' + run text
BodyReadBack(slide) ==
  LET body == BodyParagraphs(slide)
  IN [j \in DOMAIN body |->
        <<body[j].bullet.char, SP>> \o body[j].runs[1].text]

\* C20: for every generated content slide, reading the slide back by
\* position key recovers exactly what was written: the title slot's first run
\* equals the title given, and the body paragraphs read in order as bullet
\* char + ' ' + run text equal the non-blank trimmed lines of the content
\* given.
C20_RoundTrip ==
  pc = "done" =>
    \A k \in DOMAIN slides :
      slide_log[k].kind \in ContentKinds =>
        /\ TitleSlotText(slides[k]) = TitleFor(slide_log[k])
        /\ BodyReadBack(slides[k]) = NonBlankLines(SuppliedContent(slide_log[k]))

(***************************************************************************)
(* Properties of the assembler, checked under SpecAssemble.                *)
(***************************************************************************)
\* the slides of the document made for records, and those of the template
RecordSlides == SelectSeq(prs, LAMBDA slide : slide.of = "record")
TemplateSlidesLeft == SelectSeq(prs, LAMBDA slide : slide.of = "template")

\* C21: after the assembler has processed the n records on a template
\* document of t slides, the document holds exactly n slides, in record
\* order, and none of the t template slides; the template slides are removed
\* only after the last record has been realized: while a record is still to
\* be realized all t template slides are in the document, and the slides
\* made so far are those of the first records, in record order.
C21_OnlyGeneratedSlidesRemain ==
  /\ \A k \in DOMAIN RecordSlides : RecordSlides[k].index = k
  /\ Len(RecordSlides) = nread
  /\ pc = "load" \/ nread < Len(arg) =>
       Len(TemplateSlidesLeft) = original_slide_count
  /\ pc \in {"removed", "saved"} =>
       /\ Len(prs) = Len(arg)
       /\ prs = RecordSlides
       /\ TemplateSlidesLeft = <<>>

\* a document of four template slides and three records was saved
C21_Witness ==
  /\ pc = "saved"
  /\ original_slide_count = 4
  /\ Len(arg) = 3
  /\ Len(prs) = 3
  /\ "final_presentation.pptx" \in DOMAIN files

(***************************************************************************)
(* Properties of the pipeline, checked under SpecMain.                     *)
(***************************************************************************)
\* generate_presentation_script has returned or raised after the model
\* returned a response
ResponseHandled ==
  /\ pc \notin {"start", "input", "generate", "loads", "fix"}
  /\ raised \notin {<<"FileNotFoundError">>, <<"APIError">>}

\* text cut just after its last ']', or <<>> when it holds no ']'
CutAfterLastBracket(text) ==
  IF \E i \in DOMAIN text : text[i] = "]"
  THEN SubSeq(text, 1,
              CHOOSE i \in DOMAIN text :
                text[i] = "]" /\ \A j \in DOMAIN text : text[j] = "]" => j <= i)
  ELSE <<>>

DebugWritten == "debug_response.txt" \in DOMAIN files
JsonErrorRaised == raised = <<"JSONDecodeError">>

\* C22: in generate_presentation_script, a response that is valid JSON is
\* used as parsed; when the response is not valid JSON and the response cut
\* just after its last ']' parses, that parsed value is used and no error is
\* raised; otherwise the raw response is written to debug_response.txt and
\* the JSON error is raised.  The debug file is written in no other case.
C22_RepairOrDebug ==
  IF ~ResponseHandled THEN ~DebugWritten /\ ~JsonErrorRaised
  ELSE IF JsonLoads(response_content) # <<>>
       THEN /\ result = JsonLoads(response_content)
            /\ ~DebugWritten /\ ~JsonErrorRaised
  ELSE IF JsonLoads(CutAfterLastBracket(response_content)) # <<>>
       THEN /\ result = JsonLoads(CutAfterLastBracket(response_content))
            /\ ~DebugWritten /\ ~JsonErrorRaised
  ELSE /\ DebugWritten
       /\ files["debug_response.txt"] = response_content
       /\ JsonErrorRaised
       /\ result = <<>>

\* a response with text after its array was repaired and its slides saved
C22_Witness ==
  /\ pc = "template"
  /\ JsonLoads(response_content) = <<>>
  /\ result = <<<<"[", Dict, "]">>>>
  /\ "slide_script.json" \in DOMAIN files
  /\ ~DebugWritten

\* C23: when a step of the pipeline of main.py fails (missing input, failed
\* or unparseable response of the language model, missing template, assembly
\* error), the run ends with a non-zero outcome and a diagnostic message, and
\* no final presentation is saved.
C23_FailureIsReported ==
  pc = "failed" =>
    /\ exit_code # <<>>
    /\ exit_code # <<0>>
    /\ diagnostic
    /\ "final_presentation.pptx" \notin DOMAIN files

\* C25: if a required input or template file is absent, the pipeline of
\* main.py aborts before any stage runs: the language model is not called and
\* neither represent.txt nor slide_script.json is written.
C25_MissingFileAbortsFirst ==
  ~(RequiredFiles \subseteq env.exists) =>
    /\ llm_calls = 0
    /\ "represent.txt" \notin DOMAIN files
    /\ "slide_script.json" \notin DOMAIN files

(***************************************************************************)
(* Properties of the formatter's text, checked under SpecFormat.           *)
(***************************************************************************)
\* the lines of steps, trimmed
StepLines(solution_steps) ==
  [k \in DOMAIN solution_steps |-> Strip(FormatSteps(solution_steps)[k])]

\* the three result lines of task, trimmed
ResultLines(task) ==
  <<Strip(GlyphLine(Glyph0, task.result)), Strip(GlyphLine(Glyph0, task.analysis)),
    Strip(GlyphLine(Glyph0, task.comment))>>

\* what the parse should give for task number k of the report
ExpectedTask(task, k) ==
  [title |-> <<"2", ".">> \o Decimal(k) \o <<".", SP>> \o task.title,
   problem |-> Strip(GlyphLine(Glyph0, task.problem_description)),
   solution |-> Join(NL, StepLines(task.solution_steps)),
   result |-> Join(NL, ResultLines(task))]

Parsed == pc \in {"paste", "done"}

\* C29: parsing the text that create_structured_format produces from N tasks
\* gives N tasks in input order where, for every k from 1 to N including the
\* last, task k has title '2.k. ' + title_k, problem equal to its problem
\* line, solution equal to its step lines in order and result equal to its
\* three result lines, and gives future_work equal to the future-work line
\* and detected sections purpose, completed, future.
C29_FormatRoundTrip ==
  Parsed =>
    /\ content.tasks = [k \in DOMAIN arg.tasks |-> ExpectedTask(arg.tasks[k], k)]
    /\ content.future_work = Strip(GlyphLine(Glyph0, arg.future_work))
    /\ content.detected_info.sections = <<"purpose", "completed", "future">>

\* solution steps that are one level-0 step followed by at most 3 level-1 steps
OneMainFewSubs(solution_steps) ==
  /\ Len(solution_steps) \in 1..4
  /\ solution_steps[1].level = 0
  /\ \A k \in 2..Len(solution_steps) : solution_steps[k].level = 1

\* C30: for text produced by create_structured_format from N tasks whose
\* solution steps are one level-0 step followed by at most 3 level-1 steps,
\* the deck built by generate_from_structured_format has exactly the 4N + 7
\* slides that the text declares as 'Total Slides'.
C30_DeckHasDeclaredSlides ==
  pc = "done" /\ (\A k \in DOMAIN arg.tasks : OneMainFewSubs(arg.tasks[k].solution_steps))
    => /\ DeclaredTotalSlides(arg) = 4 * Len(arg.tasks) + 7
       /\ Len(slides) = DeclaredTotalSlides(arg)

(***************************************************************************)
(* Properties of the stages, checked under SpecStages.                     *)
(***************************************************************************)
\* the call of the model failed in the extraction stage
ExtractionFailed == pc # "extract" /\ env.extraction # "text"

\* the formatting stage got no response, or one that json.loads rejects
FormattingFailed ==
  \/ raised = <<"APIError">>
  \/ /\ pc \notin {"extract", "parse_represent"}
     /\ raised # <<"APIError">>
     /\ JsonLoads(response_content) = <<>>

\* C24: when the call of the language model fails or returns unparseable
\* output in the extraction stage or in the formatting stage, the run aborts:
\* the failed stage writes no represent.txt / structured_format.txt and
\* returns no content that a later stage then processes as valid.
C24_FailedStageWritesNothing ==
  /\ ExtractionFailed =>
       /\ "represent.txt" \notin DOMAIN files
       /\ out = <<>>
       /\ llm_calls = 1
  /\ FormattingFailed =>
       /\ "structured_format.txt" \notin DOMAIN files
       /\ pc = "failed"

(***************************************************************************)
(* Properties of the text of a paragraph, checked under SpecLine.          *)
(***************************************************************************)
\* the text of line after the first token glyph, and after the last
AfterFirst(glyph, line) == SubSeq(line, Find(<<glyph>>, line) + 2, Len(line))
AfterLast(glyph, line) ==
  SubSeq(line,
         1 + (CHOOSE k \in DOMAIN line :
                line[k] = glyph /\ \A j \in (k + 1)..Len(line) : line[j] # glyph),
         Len(line))

\* the line was made a paragraph of level 1
MadeLevel1 == pc = "paragraphs" /\ out # <<>> /\ out[1].level = 1

\* C26 as claimed: for every line classified as level 1, the paragraph text
\* produced by _parse_bullet_content is the trimmed text after the last
\* occurrence of the level-1 glyph in the line.
C26_TextAfterLastGlyph ==
  MadeLevel1 => out[1].runs[1].text = Strip(AfterLast(Glyph1, Strip(arg)))

\* C26 as amended: for every line classified as level 1, the paragraph text
\* is the trimmed text after the first occurrence of the level-1 glyph in the
\* line; later level-1 glyphs are part of the text.
C26_TextAfterFirstGlyph ==
  MadeLevel1 => out[1].runs[1].text = Strip(AfterFirst(Glyph1, Strip(arg)))

\* a line with two level-1 glyphs was made a paragraph: the second glyph is
\* in its text
C26_Witness ==
  /\ MadeLevel1
  /\ arg = <<Glyph1, "a", Glyph1, "a">>
  /\ out[1].runs[1].text = <<"a", Glyph1, "a">>

\* C27: for every line that contains the level-0 glyph and no level-1 glyph,
\* wherever the glyph stands in the line and whatever follows it,
\* _parse_bullet_content produces a level-0 paragraph with the level-0 bullet
\* char whose text is the trimmed text after the first level-0 glyph, the
\* glyph itself not being part of the text.
C27_MainGlyphAnywhere ==
  pc = "paragraphs" /\ In(<<Glyph0>>, arg) /\ ~In(<<Glyph1>>, arg) =>
    /\ Len(out) = 1
    /\ out[1].level = 0
    /\ out[1].bullet.char = Glyph0
    /\ out[1].runs[1].text = Strip(AfterFirst(Glyph0, Strip(arg)))

(***************************************************************************)
(* No content is lost by the balancer, checked under SpecBalance.          *)
(***************************************************************************)
\* the last level-0 line of the chunks before chunk number j, or <<>>
RECURSIVE LastMainPointBefore(_, _)
LastMainPointBefore(j, k) ==
  IF j = 0 THEN <<>>
  ELSE IF k = 0 THEN LastMainPointBefore(j - 1, IF j = 1 THEN 0 ELSE Len(ChunkLines(j - 1)))
  ELSE IF IsMainPoint(ChunkLines(j)[k]) THEN ChunkLines(j)[k]
  ELSE LastMainPointBefore(j, k - 1)

\* chunk number j may begin with a header repeated at a split
MayRepeatHeader(j) ==
  /\ j >= 2
  /\ bal_chunks[j] # <<>>
  /\ IsMainPoint(ChunkLines(j)[1])
  /\ ChunkLines(j)[1] = LastMainPointBefore(j - 1, Len(ChunkLines(j - 1)))

\* the lines of the chunks from number j on, without the first line of the
\* chunks of repeated
RECURSIVE ChunksFrom(_, _)
ChunksFrom(j, repeated) ==
  IF j > Len(bal_chunks) THEN <<>>
  ELSE (IF bal_chunks[j] = <<>> THEN <<>>
        ELSE IF j \in repeated THEN Tail(ChunkLines(j))
        ELSE ChunkLines(j))
       \o ChunksFrom(j + 1, repeated)

\* C28: _balance_content_distribution loses no content: for every input and
\* every max_sub_points, each non-blank input line appears (trimmed) in some
\* returned chunk, and the chunks concatenated in order, with the level-0
\* header lines repeated at a split removed, equal the sequence of non-blank
\* trimmed input lines - in particular a level-0 line with no sub-points that
\* is followed by another level-0 line is kept.
C28_NoContentLost ==
  pc = "balanced" =>
    /\ \A i \in DOMAIN BalInput :
         \E j \in DOMAIN bal_chunks : \E k \in DOMAIN ChunkLines(j) :
           ChunkLines(j)[k] = BalInput[i]
    /\ \E repeated \in SUBSET {j \in DOMAIN bal_chunks : MayRepeatHeader(j)} :
         ChunksFrom(1, repeated) = BalInput

====
